---- MODULE Spec2Model ----
(***************************************************************************)
(* Document-integrity ledger of LegalLens: envelope encryption, signed     *)
(* hash records linked into a hash chain (GCULBlockchainService) and the   *)
(* throttled, time-expiring VerificationCache in front of verification.    *)
(*                                                                         *)
(* Python values: a str is a TLA+ string, bytes are the string of their    *)
(* text, None is the empty tuple << >> and a present optional value v is   *)
(* << v >>; a dict is a function from its keys.  uuid4() is a fresh name   *)
(* numbered by the rows already written.  time.time() is the variable now, *)
(* in whole seconds; datetime.utcnow() of a Ledger Store row is a reading  *)
(* that the call is given, a number which only its order to the other      *)
(* readings tells apart.                                                   *)
(***************************************************************************)
EXTENDS Integers, Sequences, FiniteSets, TLC

(***************************************************************************)
(* Bounds of the model.                                                    *)
(***************************************************************************)
\* hash records inserted in a run
MaxRecords == 2
\* blobs uploaded in a run
MaxBlobs == 2
\* verifyIntegrity calls that pass the throttle gate in a run
MaxVerifies == 2
\* entries set directly into the cache in a run of the cache alone
MaxSets == 2
\* hash records written in a run that reads the audit trail of a chain
\* longer than the trail shows
MaxAuditRecords == 6
\* the clock's first reading
Epoch == 1000

(***************************************************************************)
(* Inputs.                                                                 *)
(***************************************************************************)
DocIds == {"doc-1", "doc-2"}
Contents == {"hello", "goodbye"}
ExtractedText == "hello world"
\* request handlers that share the Ledger Store
Workers == {1, 2}
\* the request that runs delete_document beside them
Deleter == 0
Processes == Workers \cup {Deleter}
\* the clock is read at these offsets from Epoch: at the end of the throttle
\* window and past each of the three TTLs
Instants == {Epoch + d : d \in {0, 60, 301, 1801, 3601}}
\* for the cache taken alone: inside the throttle window too, and with each
\* TTL met exactly
FineInstants == {Epoch + d : d \in {0, 59, 60, 61, 300, 301, 1800, 1801, 3600, 3601}}

(***************************************************************************)
(* Program constants.                                                      *)
(***************************************************************************)
default_ttl == 3600
throttle_window == 60
TTL_NOT_FOUND == 300
TTL_VERIFIED == 3600
TTL_TAMPERED == 1800
KEY_PREFIX_LEN == 16
AUDIT_CHAIN_LIMIT == 5

(***************************************************************************)
(* hashlib.sha256(s.encode('utf-8')).hexdigest(): the digests of the       *)
(* inputs above, of the hash ids, and of the block data of every chain     *)
(* over them.  Any other input has a digest of its own, written            *)
(* symbolically.                                                           *)
(***************************************************************************)
Sha256Table ==
       ("hello" :> "2cf24dba5fb0a30e26e83b2ac5b9e29e1b161e5c1fa7425e73043362938b9824")
    @@ ("goodbye" :> "82e35a63ceba37e9646434c5dd412ea577147f1e4a41ccde1614253187e3dbf9")
    @@ ("anything" :> "ee0874170b7f6f32b8c2ac9573c428d35b575270a66b757c2c0185d2bd09718d")
    @@ ("hello world" :> "b94d27b9934d3e08a52e52d7da7dabfac484efe37a5380ee9088f7ace2efcde9")
    @@ ("hash-1" :> "73a370509b33f7d64369bf097335b57c4021bd28e33a3f12c1b622fd62222374")
    @@ ("hash-2" :> "68240addda41562dabc703d040452cbd977e8e52035a4addb58a447b3468caad")
    @@ ("hash-3" :> "39e965107531a43f31280bfd8ecfa354aa4ae7f0fa91892e6757f50540de140f")
    @@ ("hash-4" :> "e95a006bcc269764947254011273a69edd6c43cf878ed3b15f717748089f657a")
    @@ ("0:None:73a370509b33f7d64369bf097335b57c4021bd28e33a3f12c1b622fd62222374" :> "345962fdd02111d18bb0af30bc31a41b2ba714ed88896fb0398c0355458b772a")
    @@ ("0:None:68240addda41562dabc703d040452cbd977e8e52035a4addb58a447b3468caad" :> "25b23d539a7c7a67e45300bd7f59ecff62ef17adb53becff328199ca04a185b4")
    @@ ("0:None:39e965107531a43f31280bfd8ecfa354aa4ae7f0fa91892e6757f50540de140f" :> "256cd37deac32f936ad29fa2286d1089a2b50c81ecf708226fdfbfc06a874279")
    @@ ("0:None:e95a006bcc269764947254011273a69edd6c43cf878ed3b15f717748089f657a" :> "f816c4a0ef100978932e22cfcc7859ba229b27c46d78714534025a6dada41a6c")
    @@ ("1:345962fdd02111d18bb0af30bc31a41b2ba714ed88896fb0398c0355458b772a:68240addda41562dabc703d040452cbd977e8e52035a4addb58a447b3468caad" :> "d061749327f3c6437438f55dd36b855265a5525c19d11dcaaf8c210a04293cdb")
    @@ ("1:345962fdd02111d18bb0af30bc31a41b2ba714ed88896fb0398c0355458b772a:39e965107531a43f31280bfd8ecfa354aa4ae7f0fa91892e6757f50540de140f" :> "700a47c6966757795b702730d38b7739ccf21b00a7f7017750aaf53e0911702b")
    @@ ("1:345962fdd02111d18bb0af30bc31a41b2ba714ed88896fb0398c0355458b772a:e95a006bcc269764947254011273a69edd6c43cf878ed3b15f717748089f657a" :> "b67bdad1fd66e81d00506c3ec8ccffb3b52cebbfc20a7907d9f40411331a5bee")
    @@ ("1:25b23d539a7c7a67e45300bd7f59ecff62ef17adb53becff328199ca04a185b4:73a370509b33f7d64369bf097335b57c4021bd28e33a3f12c1b622fd62222374" :> "45551790852bdf27d6454658adad71767298a294b9f4c00343cff3bb7e033855")
    @@ ("1:25b23d539a7c7a67e45300bd7f59ecff62ef17adb53becff328199ca04a185b4:39e965107531a43f31280bfd8ecfa354aa4ae7f0fa91892e6757f50540de140f" :> "bfacf958256032490f414eddafb0012b064b0bfbd1c252f01a93a6f65bcc2f4d")
    @@ ("1:25b23d539a7c7a67e45300bd7f59ecff62ef17adb53becff328199ca04a185b4:e95a006bcc269764947254011273a69edd6c43cf878ed3b15f717748089f657a" :> "00c4a58c4e96b5fbf9483e8cfa568b44baf8603b8ee15bc50630961492049162")
    @@ ("1:256cd37deac32f936ad29fa2286d1089a2b50c81ecf708226fdfbfc06a874279:73a370509b33f7d64369bf097335b57c4021bd28e33a3f12c1b622fd62222374" :> "0528dea5c72fd0e039b37eb6d014b39b7ad548282ddfc543bd77171e09b17151")
    @@ ("1:256cd37deac32f936ad29fa2286d1089a2b50c81ecf708226fdfbfc06a874279:68240addda41562dabc703d040452cbd977e8e52035a4addb58a447b3468caad" :> "b68a87094d60b5976800a5c5614bb7fb27749362951e34b5300b24a4e58e09ab")
    @@ ("1:256cd37deac32f936ad29fa2286d1089a2b50c81ecf708226fdfbfc06a874279:e95a006bcc269764947254011273a69edd6c43cf878ed3b15f717748089f657a" :> "7039d4a1c76a4a651b0bc73ed35c80fe0bed4168ba11d3bee9aedac87acdc152")
    @@ ("1:f816c4a0ef100978932e22cfcc7859ba229b27c46d78714534025a6dada41a6c:73a370509b33f7d64369bf097335b57c4021bd28e33a3f12c1b622fd62222374" :> "1cd58f3e1ff52789fe8b12be529d335ae0b4c500f86eaecc437952dfec431394")
    @@ ("1:f816c4a0ef100978932e22cfcc7859ba229b27c46d78714534025a6dada41a6c:68240addda41562dabc703d040452cbd977e8e52035a4addb58a447b3468caad" :> "6c3c3c84f9b2e67427310125ce054a076f8ecd7917529ce5b71bbd8d387d14d5")
    @@ ("1:f816c4a0ef100978932e22cfcc7859ba229b27c46d78714534025a6dada41a6c:39e965107531a43f31280bfd8ecfa354aa4ae7f0fa91892e6757f50540de140f" :> "3d206ce3f89a8eb3a0f30442f0934ea5c7a3c24d04d236c0111905b2fb93656c")
    @@ ("2:d061749327f3c6437438f55dd36b855265a5525c19d11dcaaf8c210a04293cdb:39e965107531a43f31280bfd8ecfa354aa4ae7f0fa91892e6757f50540de140f" :> "681e5c8e50b2fae4835dd819b1cf2cbedf5be451346bb0f6d75176ba1c3f9009")
    @@ ("2:d061749327f3c6437438f55dd36b855265a5525c19d11dcaaf8c210a04293cdb:e95a006bcc269764947254011273a69edd6c43cf878ed3b15f717748089f657a" :> "c674577d4712d5d4d4fedc9a94147a5a9c59f38bec118051e3e21b2a18da4b21")
    @@ ("2:700a47c6966757795b702730d38b7739ccf21b00a7f7017750aaf53e0911702b:68240addda41562dabc703d040452cbd977e8e52035a4addb58a447b3468caad" :> "eebfde6612d28e275a4bdb79668a19e58abaf018c50b2b734fe5c76e1168f9b1")
    @@ ("2:700a47c6966757795b702730d38b7739ccf21b00a7f7017750aaf53e0911702b:e95a006bcc269764947254011273a69edd6c43cf878ed3b15f717748089f657a" :> "2e6c738bdbab8d2ce8496bcb9fa95995a2ace5e1d440d562a70ae3b0bb59e78f")
    @@ ("2:b67bdad1fd66e81d00506c3ec8ccffb3b52cebbfc20a7907d9f40411331a5bee:68240addda41562dabc703d040452cbd977e8e52035a4addb58a447b3468caad" :> "97a5afbf88ea3a315380cb5f59ed2e7fab7c5437e9459f5ca6ffbc008326a3f9")
    @@ ("2:b67bdad1fd66e81d00506c3ec8ccffb3b52cebbfc20a7907d9f40411331a5bee:39e965107531a43f31280bfd8ecfa354aa4ae7f0fa91892e6757f50540de140f" :> "4f8914cf125bd857705514a2513bbf01a5ec993c7d6cf83ec06046663040ec9b")
    @@ ("2:45551790852bdf27d6454658adad71767298a294b9f4c00343cff3bb7e033855:39e965107531a43f31280bfd8ecfa354aa4ae7f0fa91892e6757f50540de140f" :> "eee6a2b6278919ed554673feaf70bb43d2f532e5a07dbb52531c3e7aa47b17df")
    @@ ("2:45551790852bdf27d6454658adad71767298a294b9f4c00343cff3bb7e033855:e95a006bcc269764947254011273a69edd6c43cf878ed3b15f717748089f657a" :> "8020c14b569c2cc05a4d9164278e3707fe271c7dde1963363b5c6be6de4b5de7")
    @@ ("2:bfacf958256032490f414eddafb0012b064b0bfbd1c252f01a93a6f65bcc2f4d:73a370509b33f7d64369bf097335b57c4021bd28e33a3f12c1b622fd62222374" :> "7c265421921d62da68ac8a40c1a28c5f10626426d08f3faadf04f197f2da74d7")
    @@ ("2:bfacf958256032490f414eddafb0012b064b0bfbd1c252f01a93a6f65bcc2f4d:e95a006bcc269764947254011273a69edd6c43cf878ed3b15f717748089f657a" :> "e113e00401de6c6370b8e025696f20d1b0ef4867f73f2d33d5b0a713d367129a")
    @@ ("2:00c4a58c4e96b5fbf9483e8cfa568b44baf8603b8ee15bc50630961492049162:73a370509b33f7d64369bf097335b57c4021bd28e33a3f12c1b622fd62222374" :> "d43fb7240567fc41e73e9145caa8ca0390d9132166c0490a719b360b5c1d886d")
    @@ ("2:00c4a58c4e96b5fbf9483e8cfa568b44baf8603b8ee15bc50630961492049162:39e965107531a43f31280bfd8ecfa354aa4ae7f0fa91892e6757f50540de140f" :> "3570ef939aa62d5fd612abf84cffb28c4d047392050f54cc41de13f606c696bf")
    @@ ("2:0528dea5c72fd0e039b37eb6d014b39b7ad548282ddfc543bd77171e09b17151:68240addda41562dabc703d040452cbd977e8e52035a4addb58a447b3468caad" :> "0490c202cff4a7f246e09441db6ad9ba6ea01703fad2437872f0526268504923")
    @@ ("2:0528dea5c72fd0e039b37eb6d014b39b7ad548282ddfc543bd77171e09b17151:e95a006bcc269764947254011273a69edd6c43cf878ed3b15f717748089f657a" :> "8066b4dcb8c8d9bff4156c8c0af5f8d4b3ad26bcf10f5a1d1793b84e2594aea6")
    @@ ("2:b68a87094d60b5976800a5c5614bb7fb27749362951e34b5300b24a4e58e09ab:73a370509b33f7d64369bf097335b57c4021bd28e33a3f12c1b622fd62222374" :> "ea5f8c2d51011c673771938b3246f6530190302af468e02b1862e75e043a382c")
    @@ ("2:b68a87094d60b5976800a5c5614bb7fb27749362951e34b5300b24a4e58e09ab:e95a006bcc269764947254011273a69edd6c43cf878ed3b15f717748089f657a" :> "072fcb2a7b38289312e32f6054d583a0be3310bb2c12e44083d118475da1d7cf")
    @@ ("2:7039d4a1c76a4a651b0bc73ed35c80fe0bed4168ba11d3bee9aedac87acdc152:73a370509b33f7d64369bf097335b57c4021bd28e33a3f12c1b622fd62222374" :> "231ed421600642ec438162d6a279a2d208848243761b112e901f38d35d9a115b")
    @@ ("2:7039d4a1c76a4a651b0bc73ed35c80fe0bed4168ba11d3bee9aedac87acdc152:68240addda41562dabc703d040452cbd977e8e52035a4addb58a447b3468caad" :> "4bc1ef82b571135a876253cd0448cc9ff4a4fef86dccbf1af470c396958b7428")
    @@ ("2:1cd58f3e1ff52789fe8b12be529d335ae0b4c500f86eaecc437952dfec431394:68240addda41562dabc703d040452cbd977e8e52035a4addb58a447b3468caad" :> "015dae705d6f3a12989c070d5a2915558ae52c6c10fe2f2d63477aa7db1f3cd6")
    @@ ("2:1cd58f3e1ff52789fe8b12be529d335ae0b4c500f86eaecc437952dfec431394:39e965107531a43f31280bfd8ecfa354aa4ae7f0fa91892e6757f50540de140f" :> "20d1c20199b36ac01a30f805b74456e566768f8f12452ef9c55264e05aa52531")
    @@ ("2:6c3c3c84f9b2e67427310125ce054a076f8ecd7917529ce5b71bbd8d387d14d5:73a370509b33f7d64369bf097335b57c4021bd28e33a3f12c1b622fd62222374" :> "e0ff33a01856227fe254a5647ee1e4ae4d14b85a5fb376880a7dc2c1b821bacf")
    @@ ("2:6c3c3c84f9b2e67427310125ce054a076f8ecd7917529ce5b71bbd8d387d14d5:39e965107531a43f31280bfd8ecfa354aa4ae7f0fa91892e6757f50540de140f" :> "f809b05ce93c03de1d7b081ff8e819aca3bad351c65e7888ef08ccf8b4ab4a56")
    @@ ("2:3d206ce3f89a8eb3a0f30442f0934ea5c7a3c24d04d236c0111905b2fb93656c:73a370509b33f7d64369bf097335b57c4021bd28e33a3f12c1b622fd62222374" :> "b9283ceda91cea91b7e5dae08793bad136fb8e128192833d4e32636cd8051324")
    @@ ("2:3d206ce3f89a8eb3a0f30442f0934ea5c7a3c24d04d236c0111905b2fb93656c:68240addda41562dabc703d040452cbd977e8e52035a4addb58a447b3468caad" :> "de6546f4ced934709992514dcadf4383f65c78a92e2290a1900b2db5e19ab802")
    @@ ("3:681e5c8e50b2fae4835dd819b1cf2cbedf5be451346bb0f6d75176ba1c3f9009:e95a006bcc269764947254011273a69edd6c43cf878ed3b15f717748089f657a" :> "2a0e72a960b2f9ac299040bd356cdea24d5921b4b4b4790e30c9a2912bc9f40e")
    @@ ("3:c674577d4712d5d4d4fedc9a94147a5a9c59f38bec118051e3e21b2a18da4b21:39e965107531a43f31280bfd8ecfa354aa4ae7f0fa91892e6757f50540de140f" :> "ff3bc04e7d73d3876c26d1aa417be8a869965195d28bf0be5b04decd87f56a9e")
    @@ ("3:eebfde6612d28e275a4bdb79668a19e58abaf018c50b2b734fe5c76e1168f9b1:e95a006bcc269764947254011273a69edd6c43cf878ed3b15f717748089f657a" :> "728e0fa3d3142ebb098b89617ae72a50c3f1b76d0e372c69b43dd4e773422147")
    @@ ("3:2e6c738bdbab8d2ce8496bcb9fa95995a2ace5e1d440d562a70ae3b0bb59e78f:68240addda41562dabc703d040452cbd977e8e52035a4addb58a447b3468caad" :> "c112c7d34e16d0a44406689bf36b3093d69f99730b2ff58e28a4d1fcfbb81940")
    @@ ("3:97a5afbf88ea3a315380cb5f59ed2e7fab7c5437e9459f5ca6ffbc008326a3f9:39e965107531a43f31280bfd8ecfa354aa4ae7f0fa91892e6757f50540de140f" :> "4a4545d1a5337d167f8fb034c5870d44c17cdf87ea4a5a9e4d3c8fd2bb185037")
    @@ ("3:4f8914cf125bd857705514a2513bbf01a5ec993c7d6cf83ec06046663040ec9b:68240addda41562dabc703d040452cbd977e8e52035a4addb58a447b3468caad" :> "b3478162f2ad88db75d83fa055c71c4256fd8048d5d7e193def48affd83b8769")
    @@ ("3:eee6a2b6278919ed554673feaf70bb43d2f532e5a07dbb52531c3e7aa47b17df:e95a006bcc269764947254011273a69edd6c43cf878ed3b15f717748089f657a" :> "bd86c78d5a3d37e07c6d33a7edd54b8fd8ddd1a5076edf88ced777b6160b0448")
    @@ ("3:8020c14b569c2cc05a4d9164278e3707fe271c7dde1963363b5c6be6de4b5de7:39e965107531a43f31280bfd8ecfa354aa4ae7f0fa91892e6757f50540de140f" :> "c8ed8816b73e96cc6e1b6a32b385616b89ea5527f8cb678042c081325041aa2d")
    @@ ("3:7c265421921d62da68ac8a40c1a28c5f10626426d08f3faadf04f197f2da74d7:e95a006bcc269764947254011273a69edd6c43cf878ed3b15f717748089f657a" :> "090ad2b7370b846e79462e075430bb86799fe020b487d683d7643b58286edf6a")
    @@ ("3:e113e00401de6c6370b8e025696f20d1b0ef4867f73f2d33d5b0a713d367129a:73a370509b33f7d64369bf097335b57c4021bd28e33a3f12c1b622fd62222374" :> "69ed978073f5eac646af8d5bc07b15bc7f7071f69b71f431746fd18e6eda0907")
    @@ ("3:d43fb7240567fc41e73e9145caa8ca0390d9132166c0490a719b360b5c1d886d:39e965107531a43f31280bfd8ecfa354aa4ae7f0fa91892e6757f50540de140f" :> "15ecd2d7f296e65c27d5f993950f6572edcd32651596984b5a97ae62f0ef4b35")
    @@ ("3:3570ef939aa62d5fd612abf84cffb28c4d047392050f54cc41de13f606c696bf:73a370509b33f7d64369bf097335b57c4021bd28e33a3f12c1b622fd62222374" :> "bde8fe7b1d42544373c4f87f5b1c1f138b33ec64ce1431025971d254fa872995")
    @@ ("3:0490c202cff4a7f246e09441db6ad9ba6ea01703fad2437872f0526268504923:e95a006bcc269764947254011273a69edd6c43cf878ed3b15f717748089f657a" :> "0f33f029721bbda88cd4835dfef045f7ffe490b20930d1f027340628e8baaca9")
    @@ ("3:8066b4dcb8c8d9bff4156c8c0af5f8d4b3ad26bcf10f5a1d1793b84e2594aea6:68240addda41562dabc703d040452cbd977e8e52035a4addb58a447b3468caad" :> "1488e8ae0c9b3534daab6c81907788cbd671bf62470009e6bfac273a24d7ab35")
    @@ ("3:ea5f8c2d51011c673771938b3246f6530190302af468e02b1862e75e043a382c:e95a006bcc269764947254011273a69edd6c43cf878ed3b15f717748089f657a" :> "1239bc420c87eee0c0ac0f93e9e6e13cad75cfac18753adf2f9ef79409f25d98")
    @@ ("3:072fcb2a7b38289312e32f6054d583a0be3310bb2c12e44083d118475da1d7cf:73a370509b33f7d64369bf097335b57c4021bd28e33a3f12c1b622fd62222374" :> "18944bec95e8d77d393297d5fc48c8ec31718b1c156a8d62ae4bdb5803104248")
    @@ ("3:231ed421600642ec438162d6a279a2d208848243761b112e901f38d35d9a115b:68240addda41562dabc703d040452cbd977e8e52035a4addb58a447b3468caad" :> "8cf7c41cb8da444fe1a1bd28962558149059daed58236e242e7a4416e1da793f")
    @@ ("3:4bc1ef82b571135a876253cd0448cc9ff4a4fef86dccbf1af470c396958b7428:73a370509b33f7d64369bf097335b57c4021bd28e33a3f12c1b622fd62222374" :> "1834c20f10566c548ac966f8429474f26897c0560f222503c1d6418af58cb8d9")
    @@ ("3:015dae705d6f3a12989c070d5a2915558ae52c6c10fe2f2d63477aa7db1f3cd6:39e965107531a43f31280bfd8ecfa354aa4ae7f0fa91892e6757f50540de140f" :> "37c3e8c8d09ffd3fb63de769298f492ea3137ba40794fe3b5ae8d033b45d3e4e")
    @@ ("3:20d1c20199b36ac01a30f805b74456e566768f8f12452ef9c55264e05aa52531:68240addda41562dabc703d040452cbd977e8e52035a4addb58a447b3468caad" :> "f7cdfbd83974cfb80b69ec3226b926a3a3f957c75d0e62db1cbc4968cfb6a00e")
    @@ ("3:e0ff33a01856227fe254a5647ee1e4ae4d14b85a5fb376880a7dc2c1b821bacf:39e965107531a43f31280bfd8ecfa354aa4ae7f0fa91892e6757f50540de140f" :> "1c8f565d0aaf44ea78586d0576cd61cfcee3629f3a5f90c438489940adff206f")
    @@ ("3:f809b05ce93c03de1d7b081ff8e819aca3bad351c65e7888ef08ccf8b4ab4a56:73a370509b33f7d64369bf097335b57c4021bd28e33a3f12c1b622fd62222374" :> "286649415eb1517d585b0fd8ab4acfc0b8e3e4df9cc7c2df403892b8b700b974")
    @@ ("3:b9283ceda91cea91b7e5dae08793bad136fb8e128192833d4e32636cd8051324:68240addda41562dabc703d040452cbd977e8e52035a4addb58a447b3468caad" :> "6bb3f9cbd956519b4e615dea4ba2bd639473b395d98b07ba4d23007ec6846aa2")
    @@ ("3:de6546f4ced934709992514dcadf4383f65c78a92e2290a1900b2db5e19ab802:73a370509b33f7d64369bf097335b57c4021bd28e33a3f12c1b622fd62222374" :> "660cb15e82ee5a6cbb8a719983ebbad4dde09a297001378c7362cef056616f7f")

\* Two contents that stand for a pair of different contents whose SHA-256
\* digests agree on their first 16 hex characters. Such pairs exist, there
\* being more contents than the 16^16 values of those characters, but none
\* is known here: the digests of the two are written as a common text of
\* 16 characters followed by the content, not as hex digests.
TwinContents == {"twin-a", "twin-b"}
TwinDigest(s) == "<twin-prefix-16>(" \o s \o ")"

SHA256(s) ==
    IF s \in DOMAIN Sha256Table THEN Sha256Table[s]
    ELSE IF s \in TwinContents THEN TwinDigest(s)
    ELSE "sha256(" \o s \o ")"

(***************************************************************************)
(* Python helpers.                                                         *)
(***************************************************************************)
\* None
None == << >>
\* str(x) inside an f-string, for an optional string
PyStr(opt) == IF opt = None THEN "None" ELSE opt[1]
\* s[:n]
Slice(s, n) == IF Len(s) <= n THEN s ELSE SubSeq(s, 1, n)
\* s.startswith(p)
StartsWith(s, p) == Len(s) >= Len(p) /\ SubSeq(s, 1, Len(p)) = p
\* d[k] = v
Put(d, k, v) == [x \in DOMAIN d \cup {k} |-> IF x = k THEN v ELSE d[x]]
\* del d[k] for every k in ks
Del(d, ks) == [x \in DOMAIN d \ ks |-> d[x]]
\* d.get(k)
Get(d, k) == IF k \in DOMAIN d THEN <<d[k]>> ELSE None
\* a key a result dict does not have
Absent == "<absent>"

(***************************************************************************)
(* State.                                                                  *)
(***************************************************************************)
VARIABLES
    now,                 \* the clock, seconds
    hashes,              \* Ledger Store table DocumentHashes: set of rows
    chain,               \* Ledger Store table HashChain: set of rows
    blobs,               \* the secure bucket: blob name -> [content, metadata]
    cache,               \* VerificationCache._cache: cache key -> CacheEntry
    request_timestamps,  \* VerificationCache._request_timestamps
    pc,                  \* where each worker is in create_document_hash_record,
                         \* and where the deleter is in delete_document
    loc,                 \* the locals of each process's call
    counters,            \* rows and blobs written, row timestamps taken,
                         \* verifications made so far
    last,                \* the call that returned last, and what it returned
    ghost                \* history: what the calls made so far were

vars == <<now, hashes, chain, blobs, cache, request_timestamps, pc, loc,
          counters, last, ghost>>

\* hash_ids: the hash ids that delete_document read (deleted by key, so
\* their order does not matter); timestamp: that of the row a call has
\* built and not inserted yet
NoLocals == [document_id |-> "", content |-> "", hash_id |-> "",
             last_block |-> None, block_number |-> 0, previous_hash |-> None,
             hash_ids |-> {}, timestamp |-> 0]

\* cache_hit: the call found an entry under its cache key; removed: the
\* cache keys the call deleted; attempts: the blob names of
\* the uploads the call attempted, in order; content_hash: the
\* content_hash argument of a call of the cache
NoCall == [op |-> "none", id |-> "", content |-> "", raised |-> FALSE,
           result |-> None, throttled |-> FALSE, cache_hit |-> FALSE,
           ledger_read |-> FALSE, uploads |-> 0, kms_calls |-> 0,
           kms_up |-> TRUE, removed |-> {}, attempts |-> << >>,
           content_hash |-> None]

Returned(op, id, content, result) ==
    [NoCall EXCEPT !.op = op, !.id = id, !.content = content,
                   !.result = <<result>>]

Raised(op, id, content) ==
    [NoCall EXCEPT !.op = op, !.id = id, !.content = content,
                   !.raised = TRUE]

(***************************************************************************)
(* History kept beside the program's state, for the properties only:       *)
(*   passed[d]    when the last verification or throttle check of d that   *)
(*                was not throttled was made                               *)
(*   read[d]      when verification last queried the Ledger Store for d    *)
(*   recorded[d]  C when the last createHashRecord run for d returned and  *)
(*                recorded content C, began after every other              *)
(*                createHashRecord for d had ended, and d was not deleted  *)
(*                since                                                    *)
(*   overlapped   the workers whose createHashRecord call has run beside   *)
(*                another call for the same document                       *)
(*   scenario     the calls made since the start, while they are the first *)
(*                calls of the scenario of section 8; <<"off">> afterwards *)
(*   raced        the pairs << h1, h2 >> of hash ids whose createHashRecord *)
(*                calls had both read the same latest block when neither   *)
(*                had inserted its own                                     *)
(***************************************************************************)
NoHistory == [passed |-> << >>, read |-> << >>, recorded |-> << >>,
              overlapped |-> {}, scenario |-> << >>, raced |-> {}]

Off == <<"off">>

\* the scenario: record doc-1 with hello, then verify doc-1 with hello, doc-1
\* with goodbye and doc-2 with any content, back to back
ScenarioCalls ==
    <<[op |-> "create", id |-> "doc-1", content |-> {"hello"}],
      [op |-> "verify", id |-> "doc-1", content |-> {"hello"}],
      [op |-> "verify", id |-> "doc-1", content |-> {"goodbye"}],
      [op |-> "verify", id |-> "doc-2", content |-> Contents]>>

\* the scenario's history after a call: its outcome is appended while the
\* calls follow the scenario and the Ledger Store answers
Follow(scenario, call) ==
    LET n == Len(scenario) + 1
    IN  IF /\ scenario # Off
           /\ n <= Len(ScenarioCalls)
           /\ call.op = ScenarioCalls[n].op
           /\ call.id = ScenarioCalls[n].id
           /\ call.content \in ScenarioCalls[n].content
           /\ ~call.raised
           /\ (call.op = "verify" => call.result[1].status # "ERROR")
        THEN Append(scenario, IF call.op = "verify" THEN call.result[1].status
                              ELSE "RECORDED")
        ELSE Off

\* the history after a step that is no call of the scenario
OffScenario == [ghost EXCEPT !.scenario = Off]

(***************************************************************************)
(* VerificationCache.                                                      *)
(***************************************************************************)
\* _generate_cache_key(document_id, content_hash)
generate_cache_key(document_id, content_hash) ==
    IF content_hash # None /\ content_hash[1] # ""
    THEN "verify:" \o document_id \o ":" \o Slice(content_hash[1], KEY_PREFIX_LEN)
    ELSE "verify:" \o document_id

\* the expiry test of get and clear_expired
Expired(entry, t) == t - entry.timestamp > entry.ttl

\* get(document_id, content_hash) at time t: the value returned
CacheGet(c, document_id, content_hash, t) ==
    LET cache_key == generate_cache_key(document_id, content_hash)
    IN  IF cache_key \notin DOMAIN c THEN None
        ELSE IF Expired(c[cache_key], t) THEN None
        ELSE <<c[cache_key].data>>

\* a get that leaves an expired entry in the cache (a fault C17 must detect)
CacheAfterGetKeeping(c, document_id, content_hash, t) == c

\* get(document_id, content_hash) at time t: the cache it leaves
CacheAfterGet(c, document_id, content_hash, t) ==
    LET cache_key == generate_cache_key(document_id, content_hash)
    IN  IF cache_key \in DOMAIN c /\ Expired(c[cache_key], t)
        THEN Del(c, {cache_key})
        ELSE c

\* a gate that lets every request through (a fault C2 must detect)
NeverThrottled(ts, document_id, t) == FALSE

\* a gate that takes a request recorded at instant 0 for a request (a
\* fault C30 must detect)
IsThrottledFromZero(ts, document_id, t) ==
    LET last_request == Get(ts, document_id)
    IN  /\ last_request # None
        /\ (t - last_request[1]) < throttle_window

\* a gate shared by all documents: a request of any document inside the
\* window throttles the call (a fault C27 must detect)
IsThrottledByAnyDocument(ts, document_id, t) ==
    \E d \in DOMAIN ts : ts[d] # 0 /\ (t - ts[d]) < throttle_window

\* is_throttled(document_id) at time t: the value returned
IsThrottled(ts, document_id, t) ==
    LET last_request == Get(ts, document_id)
    IN  /\ last_request # None
        /\ last_request[1] # 0
        /\ (t - last_request[1]) < throttle_window

\* a throttle map no request is recorded in (a fault C8 must detect)
NeverRecorded(ts, document_id, t) == ts

\* a throttle map every request is recorded in, a throttled one too (a
\* fault C9 must detect)
AlwaysRecorded(ts, document_id, t) == Put(ts, document_id, t)

\* is_throttled(document_id) at time t: the throttle map it leaves
AfterIsThrottled(ts, document_id, t) ==
    IF IsThrottled(ts, document_id, t) THEN ts ELSE Put(ts, document_id, t)

\* the CacheEntry set() builds; owner is history, the document it was set for
CacheEntry(verification_result, ttl, t, document_id) ==
    [data |-> verification_result,
     timestamp |-> t,
     ttl |-> IF ttl = None \/ ttl = <<0>> THEN default_ttl ELSE ttl[1],
     owner |-> document_id]

\* a set that keeps the entry the key has (a fault C18 must detect)
CacheSetIfAbsent(c, document_id, verification_result, content_hash, ttl, t) ==
    IF generate_cache_key(document_id, content_hash) \in DOMAIN c THEN c
    ELSE Put(c, generate_cache_key(document_id, content_hash),
             CacheEntry(verification_result, ttl, t, document_id))

\* set(document_id, verification_result, content_hash, ttl) at time t
CacheSet(c, document_id, verification_result, content_hash, ttl, t) ==
    Put(c, generate_cache_key(document_id, content_hash),
        CacheEntry(verification_result, ttl, t, document_id))

\* an invalidate of the key of the document alone (a fault C19 must detect)
CacheInvalidateExact(c, document_id) ==
    Del(c, {key \in DOMAIN c : key = "verify:" \o document_id})

\* invalidate(document_id)
CacheInvalidate(c, document_id) ==
    Del(c, {key \in DOMAIN c : StartsWith(key, "verify:" \o document_id)})

\* a clear_expired that takes an entry as old as its TTL for expired (a
\* fault C20 must detect)
CacheClearExpiredEarly(c, t) ==
    Del(c, {key \in DOMAIN c : t - c[key].timestamp >= c[key].ttl})

\* clear_expired() at time t
CacheClearExpired(c, t) ==
    Del(c, {key \in DOMAIN c : Expired(c[key], t)})

(***************************************************************************)
(* The Ledger Store's queries.                                             *)
(***************************************************************************)
\* SELECT ... FROM DocumentHashes WHERE document_id = @document_id
RowsOf(document_id) == {r \in hashes : r.document_id = document_id}

\* the query in ascending order of timestamp (a fault C14 must detect)
EarliestRows(document_id) ==
    {r \in RowsOf(document_id) :
        \A r2 \in RowsOf(document_id) : r.timestamp <= r2.timestamp}

\* ... ORDER BY timestamp DESC LIMIT 1
LatestRows(document_id) ==
    {r \in RowsOf(document_id) :
        \A r2 \in RowsOf(document_id) : r2.timestamp <= r.timestamp}

\* SELECT ... FROM HashChain ORDER BY block_number DESC LIMIT 1: the rows the
\* query may return (equal block numbers come back in either order)
LatestBlocks ==
    {b \in chain : \A b2 \in chain : b2.block_number <= b.block_number}

\* a next block that points at the latest block's merkle root (a fault C3
\* must detect)
NextBlockUnlinked(last_block) ==
    IF last_block = None
    THEN [block_number |-> 0, previous_hash |-> None]
    ELSE [block_number |-> last_block[1].block_number + 1,
          previous_hash |-> <<last_block[1].merkle_root>>]

\* what the query may return: nothing, or one latest block
LatestRead == IF chain = {} THEN {None} ELSE {<<b>> : b \in LatestBlocks}

\* block_number and previous_hash of the next block, as _add_to_hash_chain
\* derives them from what the query returned
NextBlock(last_block) ==
    IF last_block = None
    THEN [block_number |-> 0, previous_hash |-> None]
    ELSE [block_number |-> last_block[1].block_number + 1,
          previous_hash |-> <<last_block[1].current_hash>>]

\* the same for every answer the query may give now
NextBlocks == {NextBlock(last_block) : last_block \in LatestRead}

(***************************************************************************)
(* Digest Engine and Key Service.                                          *)
(***************************************************************************)
calculate_file_hash(content) == SHA256(content)
calculate_content_hash(text) == SHA256(text)

\* asymmetric_sign over the SHA-256 digest of payload, base64-encoded
KmsSign(payload) == "sig(" \o payload \o ")"

\* the payload signed for a hash record
HashToSign(file_hash, content_hash, document_id) ==
    file_hash \o ":" \o content_hash \o ":" \o document_id

\* merkle_root of _add_to_hash_chain
RECURSIVE Join(_)
Join(strs) == IF strs = << >> THEN "" ELSE Head(strs) \o Join(Tail(strs))
MerkleRoot(document_hashes) == SHA256(Join(document_hashes))

\* block_data and current_hash of _add_to_hash_chain
BlockData(block_number, previous_hash, merkle_root) ==
    ToString(block_number) \o ":" \o PyStr(previous_hash) \o ":" \o merkle_root
BlockHash(block_number, previous_hash, merkle_root) ==
    SHA256(BlockData(block_number, previous_hash, merkle_root))

(***************************************************************************)
(* verify_document_integrity: the results it builds.                       *)
(***************************************************************************)
ThrottledResult ==
    [verified |-> FALSE, status |-> "THROTTLED", hash_id |-> Absent,
     expected_hash |-> Absent, actual_hash |-> Absent]

NotFoundResult(current_hash) ==
    [verified |-> FALSE, status |-> "NOT_FOUND", hash_id |-> Absent,
     expected_hash |-> "N/A", actual_hash |-> current_hash]

\* a comparison against the stored content hash (a fault C1 must detect)
ComparedResultByContentHash(stored_record, current_hash) ==
    LET integrity_verified == (current_hash = stored_record.content_hash)
    IN  [verified |-> integrity_verified,
         status |-> IF integrity_verified THEN "VERIFIED" ELSE "TAMPERED",
         hash_id |-> stored_record.hash_id,
         expected_hash |-> stored_record.file_hash,
         actual_hash |-> current_hash]

\* a comparison that holds only for a hash record that a block lists (a
\* fault C28 must detect)
ComparedResultIfLinked(stored_record, current_hash) ==
    LET integrity_verified ==
            /\ current_hash = stored_record.file_hash
            /\ \E b \in chain : \E i \in DOMAIN b.document_hashes :
                  b.document_hashes[i] = stored_record.hash_id
    IN  [verified |-> integrity_verified,
         status |-> IF integrity_verified THEN "VERIFIED" ELSE "TAMPERED",
         hash_id |-> stored_record.hash_id,
         expected_hash |-> stored_record.file_hash,
         actual_hash |-> current_hash]

ComparedResult(stored_record, current_hash) ==
    LET integrity_verified == (current_hash = stored_record.file_hash)
    IN  [verified |-> integrity_verified,
         status |-> IF integrity_verified THEN "VERIFIED" ELSE "TAMPERED",
         hash_id |-> stored_record.hash_id,
         expected_hash |-> stored_record.file_hash,
         actual_hash |-> current_hash]

ErrorResult ==
    [verified |-> FALSE, status |-> "ERROR", hash_id |-> Absent,
     expected_hash |-> "N/A", actual_hash |-> "N/A"]

\* the two TTLs of a compared result exchanged (a fault C13 must detect)
CompareTtlExchanged(result) == IF result.verified THEN TTL_TAMPERED ELSE TTL_VERIFIED

\* cache_ttl of a compared result
CompareTtl(result) == IF result.verified THEN TTL_VERIFIED ELSE TTL_TAMPERED

(***************************************************************************)
(* Actions.                                                                *)
(***************************************************************************)
\* the clock moves on to the next instant of T
Tick(T) ==
    /\ \E t \in T : t > now /\ now' = t /\ \A u \in T : u > now => t <= u
    /\ last' = NoCall
    /\ ghost' = OffScenario
    /\ UNCHANGED <<hashes, chain, blobs, cache, request_timestamps, pc, loc,
                   counters>>

\* a verification that caches the ERROR result of a failed read (a fault C12
\* must detect)
VerifyOutcomesCachingErrors(document_id, current_content, spanner_up) ==
    LET current_hash == calculate_file_hash(current_content)
        cached_result == CacheGet(cache, document_id, <<current_hash>>, now)
        looked == CacheAfterGet(cache, document_id, <<current_hash>>, now)
        call == [Returned("verify", document_id, current_content, ErrorResult)
                    EXCEPT !.removed = DOMAIN cache \ DOMAIN looked]
    IN  IF cached_result # None
        THEN {[cache |-> looked,
               call |-> [call EXCEPT !.cache_hit = TRUE, !.result = cached_result]]}
        ELSE IF ~spanner_up
        THEN {[cache |-> CacheSet(looked, document_id, ErrorResult, <<current_hash>>,
                                  <<TTL_NOT_FOUND>>, now),
               call |-> [call EXCEPT !.ledger_read = TRUE]]}
        ELSE IF RowsOf(document_id) = {}
        THEN {[cache |-> CacheSet(looked, document_id, NotFoundResult(current_hash),
                                  <<current_hash>>, <<TTL_NOT_FOUND>>, now),
               call |-> [call EXCEPT !.ledger_read = TRUE,
                                     !.result = <<NotFoundResult(current_hash)>>]]}
        ELSE {[cache |-> CacheSet(looked, document_id,
                                  ComparedResult(stored_record, current_hash),
                                  <<current_hash>>,
                                  <<CompareTtl(ComparedResult(stored_record, current_hash))>>,
                                  now),
               call |-> [call EXCEPT !.ledger_read = TRUE,
                                     !.result = <<ComparedResult(stored_record, current_hash)>>]] :
                stored_record \in LatestRows(document_id)}

\* what verify_document_integrity(document_id, current_content) returns and
\* the cache it leaves, once past the throttle gate; spanner_up says whether
\* the snapshot read of DocumentHashes succeeds when it is made
VerifyOutcomes(document_id, current_content, spanner_up) ==
    LET current_hash == calculate_file_hash(current_content)
        cached_result == CacheGet(cache, document_id, <<current_hash>>, now)
        looked == CacheAfterGet(cache, document_id, <<current_hash>>, now)
        call == [Returned("verify", document_id, current_content, ErrorResult)
                    EXCEPT !.removed = DOMAIN cache \ DOMAIN looked]
    IN  IF cached_result # None
        THEN {[cache |-> looked,
               call |-> [call EXCEPT !.cache_hit = TRUE, !.result = cached_result]]}
        ELSE IF ~spanner_up
        THEN {[cache |-> looked, call |-> [call EXCEPT !.ledger_read = TRUE]]}
        ELSE IF RowsOf(document_id) = {}
        THEN {[cache |-> CacheSet(looked, document_id, NotFoundResult(current_hash),
                                  <<current_hash>>, <<TTL_NOT_FOUND>>, now),
               call |-> [call EXCEPT !.ledger_read = TRUE,
                                     !.result = <<NotFoundResult(current_hash)>>]]}
        ELSE {[cache |-> CacheSet(looked, document_id,
                                  ComparedResult(stored_record, current_hash),
                                  <<current_hash>>,
                                  <<CompareTtl(ComparedResult(stored_record, current_hash))>>,
                                  now),
               call |-> [call EXCEPT !.ledger_read = TRUE,
                                     !.result = <<ComparedResult(stored_record, current_hash)>>]] :
                stored_record \in LatestRows(document_id)}

\* what a throttled verify_document_integrity(document_id, ...) returns and
\* the cache it leaves
ThrottledOutcome(document_id, current_content) ==
    LET cached_result == CacheGet(cache, document_id, None, now)
        looked == CacheAfterGet(cache, document_id, None, now)
        call == [Returned("verify", document_id, current_content, ThrottledResult)
                    EXCEPT !.removed = DOMAIN cache \ DOMAIN looked]
    IN  [cache |-> looked,
         call |-> [call EXCEPT !.throttled = TRUE,
                               !.cache_hit = (cached_result # None),
                               !.result = IF cached_result # None THEN cached_result
                                          ELSE <<ThrottledResult>>]]

\* a verification that records its time in the throttle map after the
\* Ledger Store has answered (a fault C23 must detect)
verify_document_integrity_recording_late(document_id, current_content, spanner_up) ==
    LET throttled == IsThrottled(request_timestamps, document_id, now)
    IN  /\ throttled \/ counters.verifies < MaxVerifies
        /\ counters' = IF throttled THEN counters
                       ELSE [counters EXCEPT !.verifies = @ + 1]
        /\ \E out \in IF throttled
                      THEN {ThrottledOutcome(document_id, current_content)}
                      ELSE VerifyOutcomes(document_id, current_content, spanner_up) :
              /\ cache' = out.cache
              /\ request_timestamps' =
                    IF out.call.result[1].status = "ERROR" THEN request_timestamps
                    ELSE AfterIsThrottled(request_timestamps, document_id, now)
              /\ last' = out.call
              /\ ghost' = [ghost EXCEPT
                             !.passed = IF throttled THEN @
                                        ELSE Put(@, document_id, now),
                             !.read = IF out.call.ledger_read
                                      THEN Put(@, document_id, now) ELSE @,
                             !.scenario = Follow(@, out.call)]
        /\ UNCHANGED <<now, hashes, chain, blobs, pc, loc>>

\* verify_document_integrity(document_id, current_content)
verify_document_integrity(document_id, current_content, spanner_up) ==
    LET throttled == IsThrottled(request_timestamps, document_id, now)
    IN  /\ throttled \/ counters.verifies < MaxVerifies
        /\ counters' = IF throttled THEN counters
                       ELSE [counters EXCEPT !.verifies = @ + 1]
        /\ request_timestamps' = AfterIsThrottled(request_timestamps, document_id, now)
        /\ \E out \in IF throttled
                      THEN {ThrottledOutcome(document_id, current_content)}
                      ELSE VerifyOutcomes(document_id, current_content, spanner_up) :
              /\ cache' = out.cache
              /\ last' = out.call
              /\ ghost' = [ghost EXCEPT
                             !.passed = IF throttled THEN @
                                        ELSE Put(@, document_id, now),
                             !.read = IF out.call.ledger_read
                                      THEN Put(@, document_id, now) ELSE @,
                             !.scenario = Follow(@, out.call)]
        /\ UNCHANGED <<now, hashes, chain, blobs, pc, loc>>

\* a hash record stored without a signature (a fault C26 must detect)
HashRowUnsigned(hash_id, document_id, content, extracted_text, n) ==
    LET file_hash == calculate_file_hash(content)
        content_hash == calculate_content_hash(extracted_text)
    IN  [hash_id |-> hash_id,
         document_id |-> document_id,
         file_hash |-> file_hash,
         content_hash |-> content_hash,
         signature |-> None,
         timestamp |-> n,
         file_size |-> Len(content),
         verification_status |-> "VERIFIED"]

\* the row create_document_hash_record inserts into DocumentHashes, of
\* timestamp n
HashRow(hash_id, document_id, content, extracted_text, n) ==
    LET file_hash == calculate_file_hash(content)
        content_hash == calculate_content_hash(extracted_text)
    IN  [hash_id |-> hash_id,
         document_id |-> document_id,
         file_hash |-> file_hash,
         content_hash |-> content_hash,
         signature |-> <<KmsSign(HashToSign(file_hash, content_hash, document_id))>>,
         timestamp |-> n,
         file_size |-> Len(content),
         verification_status |-> "VERIFIED"]

\* a block whose hash leaves its previous hash out (a fault C4 must detect)
ChainRowUnbound(chain_id, block_number, previous_hash, document_hashes, n) ==
    LET merkle_root == MerkleRoot(document_hashes)
        current_hash == BlockHash(block_number, None, merkle_root)
    IN  [chain_id |-> chain_id,
         block_number |-> block_number,
         previous_hash |-> previous_hash,
         current_hash |-> current_hash,
         document_hashes |-> document_hashes,
         merkle_root |-> merkle_root,
         signature |-> <<KmsSign(current_hash)>>,
         timestamp |-> n]

\* a block numbered by the blocks stored when it is inserted, not by the
\* block read before (a fault C5 must detect)
ChainRowNumberedAtInsert(chain_id, block_number, previous_hash, document_hashes, n) ==
    LET merkle_root == MerkleRoot(document_hashes)
        current_hash == BlockHash(Cardinality(chain), previous_hash, merkle_root)
    IN  [chain_id |-> chain_id,
         block_number |-> Cardinality(chain),
         previous_hash |-> previous_hash,
         current_hash |-> current_hash,
         document_hashes |-> document_hashes,
         merkle_root |-> merkle_root,
         signature |-> <<KmsSign(current_hash)>>,
         timestamp |-> n]

\* a block that lists its hash ids twice (a fault C25 must detect)
ChainRowListingTwice(chain_id, block_number, previous_hash, document_hashes, n) ==
    LET merkle_root == MerkleRoot(document_hashes \o document_hashes)
        current_hash == BlockHash(block_number, previous_hash, merkle_root)
    IN  [chain_id |-> chain_id,
         block_number |-> block_number,
         previous_hash |-> previous_hash,
         current_hash |-> current_hash,
         document_hashes |-> document_hashes \o document_hashes,
         merkle_root |-> merkle_root,
         signature |-> <<KmsSign(current_hash)>>,
         timestamp |-> n]

\* the row _add_to_hash_chain inserts into HashChain, of timestamp n
ChainRow(chain_id, block_number, previous_hash, document_hashes, n) ==
    LET merkle_root == MerkleRoot(document_hashes)
        current_hash == BlockHash(block_number, previous_hash, merkle_root)
    IN  [chain_id |-> chain_id,
         block_number |-> block_number,
         previous_hash |-> previous_hash,
         current_hash |-> current_hash,
         document_hashes |-> document_hashes,
         merkle_root |-> merkle_root,
         signature |-> <<KmsSign(current_hash)>>,
         timestamp |-> n]

\* the greatest number of a set of naturals
MaxOf(S) == CHOOSE x \in S : \A y \in S : y <= x

\* the timestamps of the rows stored and of the rows that calls have built
\* and not inserted yet (0 for a call that has built none)
StampsTaken == {r.timestamp : r \in hashes} \cup {b.timestamp : b \in chain}
                  \cup {loc[w].timestamp : w \in Workers}

\* datetime.utcnow() while a row is built, before the batch that inserts it
\* commits, is a reading of the wall clock and an input of the call
\* (timestamp below). Nothing orders the readings of two calls or the
\* commits after them: a call may read an instant earlier than, equal to or
\* later than the timestamp of a row stored or being built by another
\* call. Stamps are the instants read by the calls given any reading: two,
\* enough for each of the three. Within one call, which commits the hash
\* record and reads the chain between its two readings, the block's reading
\* is taken to be later than the hash record's
Stamps == {1, 2}

\* one choice among those readings, given to the calls of the runs in which
\* every call finds the clock moved on: an instant later than every
\* timestamp taken. These runs have no equal timestamps and none out of the
\* order of the calls; the runs over Stamps have both
NewStamp == MaxOf(StampsTaken) + 1

\* the uuid4() names of the next hash record and the next block
NewHashId == "hash-" \o ToString(counters.hash + 1)
NewChainId == "chain-" \o ToString(counters.chain + 1)

\* the calls of create_document_hash_record that can fail, in order
RecordFailures == {"sign_fails", "insert_fails"}
ChainFailures == {"read_fails", "block_sign_fails", "block_insert_fails"}
CreateOutcomes == {"ok"} \cup RecordFailures \cup ChainFailures

\* the call record of a create_document_hash_record of that outcome with
\* its use of the KMS: the signing calls made, the signature of the hash
\* record and that of the block, and whether all of them answered
KmsUse(call, outcome) ==
    [call EXCEPT !.kms_calls = IF outcome \in RecordFailures \cup {"read_fails"}
                               THEN 1 ELSE 2,
                 !.kms_up = outcome \notin {"sign_fails", "block_sign_fails"}]

\* a create_document_hash_record that invalidates the cache entries of its
\* document (a fault C22 must detect)
create_document_hash_record_invalidating(limit, timestamp, block_timestamp, document_id, content, outcome) ==
    /\ \A p \in Processes : pc[p] = "idle"
    /\ counters.hash < limit
    /\ timestamp < block_timestamp
    /\ IF outcome \in RecordFailures
       THEN UNCHANGED <<hashes, chain, counters>>
       ELSE /\ hashes' = hashes \cup {HashRow(NewHashId, document_id, content, ExtractedText,
                                            timestamp)}
            /\ IF outcome \in ChainFailures
               THEN /\ counters' = [counters EXCEPT !.hash = @ + 1]
                    /\ UNCHANGED chain
               ELSE /\ counters' = [counters EXCEPT !.hash = @ + 1, !.chain = @ + 1]
                    /\ \E next \in NextBlocks :
                          chain' = chain \cup
                             {ChainRow(NewChainId, next.block_number, next.previous_hash,
                                       <<NewHashId>>, block_timestamp)}
    /\ last' = KmsUse(IF outcome = "ok"
                      THEN Returned("create", document_id, content, NewHashId)
                      ELSE Raised("create", document_id, content), outcome)
    /\ ghost' = [ghost EXCEPT
                   !.recorded = IF outcome = "ok" THEN Put(@, document_id, content)
                                ELSE Del(@, {document_id}),
                   !.scenario = Follow(@, last')]
    /\ cache' = CacheInvalidate(cache, document_id)
    /\ UNCHANGED <<now, blobs, request_timestamps, pc, loc>>

\* create_document_hash_record(document_id, content, ...) run alone, from
\* its first line to its return, in a run of at most limit hash records;
\* timestamp and block_timestamp are its two readings of the clock, outcome
\* says which call fails, if any
create_document_hash_record_within(limit, timestamp, block_timestamp, document_id, content, outcome) ==
    /\ \A p \in Processes : pc[p] = "idle"
    /\ counters.hash < limit
    /\ timestamp < block_timestamp
    /\ IF outcome \in RecordFailures
       THEN UNCHANGED <<hashes, chain, counters>>
       ELSE /\ hashes' = hashes \cup {HashRow(NewHashId, document_id, content, ExtractedText,
                                            timestamp)}
            /\ IF outcome \in ChainFailures
               THEN /\ counters' = [counters EXCEPT !.hash = @ + 1]
                    /\ UNCHANGED chain
               ELSE /\ counters' = [counters EXCEPT !.hash = @ + 1, !.chain = @ + 1]
                    /\ \E next \in NextBlocks :
                          chain' = chain \cup
                             {ChainRow(NewChainId, next.block_number, next.previous_hash,
                                       <<NewHashId>>, block_timestamp)}
    /\ last' = KmsUse(IF outcome = "ok"
                      THEN Returned("create", document_id, content, NewHashId)
                      ELSE Raised("create", document_id, content), outcome)
    /\ ghost' = [ghost EXCEPT
                   !.recorded = IF outcome = "ok" THEN Put(@, document_id, content)
                                ELSE Del(@, {document_id}),
                   !.scenario = Follow(@, last')]
    /\ UNCHANGED <<now, blobs, cache, request_timestamps, pc, loc>>

\* create_document_hash_record(document_id, content, ...) run alone
create_document_hash_record(timestamp, block_timestamp, document_id, content, outcome) ==
    create_document_hash_record_within(MaxRecords, timestamp, block_timestamp,
                                       document_id, content, outcome)

\* the calls of create_document_hash_record past their first line whose
\* hash record is not inserted yet
Building == {v \in Workers : pc[v] = "insert_record"}

\* the history when worker w leaves its call
Left(w) == [ghost EXCEPT !.overlapped = @ \ {w}]

\* create_document_hash_record of worker w from its first line to the row
\* it builds for DocumentHashes: the hash record is signed and timestamp,
\* the clock's reading, is put into the row; the batch has not committed.
\* Calls of several workers interleave
create_hash_record_begin(w, timestamp, document_id, content, outcome) ==
    /\ pc[w] = "idle"
    /\ \A v \in Workers : v < w => pc[v] # "idle"
    /\ counters.hash + Cardinality(Building) < MaxRecords
    /\ timestamp \in 1 .. 2 * MaxRecords
    /\ IF outcome = "sign_fails"
       THEN /\ last' = KmsUse(Raised("create", document_id, content), outcome)
            /\ UNCHANGED <<pc, loc>>
       ELSE /\ pc' = [pc EXCEPT ![w] = "insert_record"]
            /\ loc' = [loc EXCEPT ![w] = [NoLocals EXCEPT !.document_id = document_id,
                                                          !.content = content,
                                                          !.timestamp = timestamp]]
            /\ UNCHANGED last
    /\ LET others == {v \in Workers \ {w} : /\ pc[v] # "idle"
                                             /\ loc[v].document_id = document_id}
       IN  ghost' = [ghost EXCEPT
                       !.recorded = Del(@, {document_id}),
                       !.overlapped = IF outcome = "sign_fails" THEN @
                                      ELSE IF others = {} THEN @ \ {w}
                                      ELSE @ \cup others \cup {w},
                       !.scenario = Off]
    /\ UNCHANGED <<now, hashes, chain, blobs, cache, request_timestamps, counters>>

\* the commit of the batch that inserts the hash record of worker w, with
\* the timestamp taken before
create_hash_record_insert(w, outcome) ==
    /\ pc[w] = "insert_record"
    /\ IF outcome = "insert_fails"
       THEN /\ pc' = [pc EXCEPT ![w] = "idle"]
            /\ loc' = [loc EXCEPT ![w] = NoLocals]
            /\ last' = KmsUse(Raised("create", loc[w].document_id, loc[w].content),
                              outcome)
            /\ ghost' = Left(w)
            /\ UNCHANGED <<hashes, counters>>
       ELSE /\ hashes' = hashes \cup {HashRow(NewHashId, loc[w].document_id,
                                              loc[w].content, ExtractedText,
                                              loc[w].timestamp)}
            /\ counters' = [counters EXCEPT !.hash = @ + 1]
            /\ pc' = [pc EXCEPT ![w] = "read_latest"]
            /\ loc' = [loc EXCEPT ![w].hash_id = NewHashId]
            /\ UNCHANGED <<last, ghost>>
    /\ UNCHANGED <<now, chain, blobs, cache, request_timestamps>>

\* a read of the latest block whose failure takes the hash record back (a
\* fault C11 must detect)
add_to_hash_chain_read_rollback(w, spanner_up) ==
    /\ pc[w] = "read_latest"
    /\ ~spanner_up
    /\ pc' = [pc EXCEPT ![w] = "idle"]
    /\ loc' = [loc EXCEPT ![w] = NoLocals]
    /\ hashes' = {r \in hashes : r.hash_id # loc[w].hash_id}
    /\ last' = KmsUse(Raised("create", loc[w].document_id, loc[w].content),
                      "read_fails")
    /\ UNCHANGED <<now, chain, blobs, cache, request_timestamps, counters, ghost>>

\* the calls that have read the latest block and not inserted their own
Appending == {v \in Workers : pc[v] \in {"sign_block", "insert_block"}}

\* _add_to_hash_chain of worker w: the read of the latest block
add_to_hash_chain_read(w, spanner_up) ==
    /\ pc[w] = "read_latest"
    /\ IF ~spanner_up
       THEN /\ pc' = [pc EXCEPT ![w] = "idle"]
            /\ loc' = [loc EXCEPT ![w] = NoLocals]
            /\ last' = KmsUse(Raised("create", loc[w].document_id, loc[w].content),
                              "read_fails")
            /\ ghost' = Left(w)
       ELSE /\ pc' = [pc EXCEPT ![w] = "sign_block"]
            /\ \E last_block \in LatestRead :
                  loc' = [loc EXCEPT ![w].last_block = last_block,
                                     ![w].previous_hash = NextBlock(last_block).previous_hash,
                                     ![w].block_number = NextBlock(last_block).block_number]
            /\ ghost' = [ghost EXCEPT !.raced = @ \cup
                            {<<loc[v].hash_id, loc[w].hash_id>> : v \in
                               {u \in Appending \ {w} :
                                  loc[u].last_block = loc'[w].last_block}}]
            /\ UNCHANGED last
    /\ UNCHANGED <<now, hashes, chain, blobs, cache, request_timestamps, counters>>

\* _add_to_hash_chain of worker w from the block's construction to the row
\* it builds for HashChain: the block is signed and timestamp, a reading
\* of the clock later than the call's first, is put into the row; the
\* batch has not committed
add_to_hash_chain_sign(w, timestamp, outcome) ==
    /\ pc[w] = "sign_block"
    /\ IF outcome = "block_sign_fails"
       THEN /\ pc' = [pc EXCEPT ![w] = "idle"]
            /\ loc' = [loc EXCEPT ![w] = NoLocals]
            /\ last' = KmsUse(Raised("create", loc[w].document_id, loc[w].content),
                              outcome)
            /\ ghost' = Left(w)
       ELSE /\ timestamp > loc[w].timestamp
            /\ pc' = [pc EXCEPT ![w] = "insert_block"]
            /\ loc' = [loc EXCEPT ![w].timestamp = timestamp]
            /\ UNCHANGED <<last, ghost>>
    /\ UNCHANGED <<now, hashes, chain, blobs, cache, request_timestamps, counters>>

\* the commit of the batch that inserts the block of worker w, and the
\* return of create_document_hash_record
add_to_hash_chain_insert(w, outcome) ==
    /\ pc[w] = "insert_block"
    /\ pc' = [pc EXCEPT ![w] = "idle"]
    /\ loc' = [loc EXCEPT ![w] = NoLocals]
    /\ IF outcome = "ok"
       THEN /\ chain' = chain \cup {ChainRow(NewChainId, loc[w].block_number,
                                             loc[w].previous_hash, <<loc[w].hash_id>>,
                                             loc[w].timestamp)}
            /\ counters' = [counters EXCEPT !.chain = @ + 1]
            /\ last' = KmsUse(Returned("create", loc[w].document_id, loc[w].content,
                                       loc[w].hash_id), outcome)
            /\ ghost' = [Left(w) EXCEPT !.recorded =
                            IF w \in ghost.overlapped THEN @
                            ELSE Put(@, loc[w].document_id, loc[w].content)]
       ELSE /\ last' = KmsUse(Raised("create", loc[w].document_id, loc[w].content),
                              outcome)
            /\ ghost' = Left(w)
            /\ UNCHANGED <<chain, counters>>
    /\ UNCHANGED <<now, hashes, blobs, cache, request_timestamps>>

\* the calls of delete_document that may fail. Getting the services
\* (get_mcp_server, the import of the Firestore service) and the calls of
\* the plain bucket raise HTTP 500
DeleteFailures == {"server_fails", "storage_fails"}
\* FirestoreService.delete_document catches its own failure and returns
\* False, which the route ignores: the call goes on as if it had succeeded
DeleteSwallowed == {"firestore_fails"}
\* a failure of the Ledger Store's snapshot or batch is logged and the call
\* returns success
DeleteOutcomes == {"ok", "snapshot_fails", "batch_fails"} \cup DeleteSwallowed
                     \cup DeleteFailures

\* hash_ids = [row[0] for row in hash_results]
HashIdsOf(document_id) == {r.hash_id : r \in RowsOf(document_id)}

\* the batch of delete_document: batch.delete by key for each hash id read
DeleteByKeys(rows, hash_ids) == {r \in rows : r.hash_id \notin hash_ids}

\* delete_document of the web layer from its first line to its snapshot
\* read of the document's hash ids, when calls interleave (the documents of
\* Firestore and the blobs it removes, those of the plain bucket named by
\* document id, are no state of the model)
delete_document_read(document_id, outcome) ==
    /\ pc[Deleter] = "idle"
    /\ IF outcome \in DeleteFailures
       THEN /\ last' = Raised("delete", document_id, "")
            /\ UNCHANGED <<pc, loc>>
       ELSE IF outcome = "snapshot_fails" \/ HashIdsOf(document_id) = {}
       THEN /\ last' = Returned("delete", document_id, "", "success")
            /\ UNCHANGED <<pc, loc>>
       ELSE /\ pc' = [pc EXCEPT ![Deleter] = "batch"]
            /\ loc' = [loc EXCEPT ![Deleter] =
                          [NoLocals EXCEPT !.document_id = document_id,
                                           !.hash_ids = HashIdsOf(document_id)]]
            /\ UNCHANGED last
    /\ ghost' = OffScenario
    /\ UNCHANGED <<now, hashes, chain, blobs, cache, request_timestamps, counters>>

\* a batch that takes the blocks of the hash ids with the hash records (a
\* fault C6 must detect)
delete_document_batch_cascading(outcome) ==
    /\ pc[Deleter] = "batch"
    /\ pc' = [pc EXCEPT ![Deleter] = "idle"]
    /\ loc' = [loc EXCEPT ![Deleter] = NoLocals]
    /\ hashes' = DeleteByKeys(hashes, loc[Deleter].hash_ids)
    /\ chain' = {b \in chain : \A i \in DOMAIN b.document_hashes :
                                  b.document_hashes[i] \notin loc[Deleter].hash_ids}
    /\ last' = Returned("delete", loc[Deleter].document_id, "", "success")
    /\ ghost' = [ghost EXCEPT !.recorded = Del(@, {loc[Deleter].document_id}),
                              !.scenario = Off]
    /\ UNCHANGED <<now, blobs, cache, request_timestamps, counters>>

\* delete_document from its batch of deletes to its return: the batch
\* deletes the hash ids read before it, and no row inserted since
delete_document_batch(outcome) ==
    /\ pc[Deleter] = "batch"
    /\ pc' = [pc EXCEPT ![Deleter] = "idle"]
    /\ loc' = [loc EXCEPT ![Deleter] = NoLocals]
    /\ hashes' = IF outcome = "ok" THEN DeleteByKeys(hashes, loc[Deleter].hash_ids)
                 ELSE hashes
    /\ last' = Returned("delete", loc[Deleter].document_id, "", "success")
    /\ ghost' = [ghost EXCEPT !.recorded = IF outcome = "ok"
                                           THEN Del(@, {loc[Deleter].document_id})
                                           ELSE @,
                              !.scenario = Off]
    /\ UNCHANGED <<now, chain, blobs, cache, request_timestamps, counters>>

\* delete_document run alone, from its first line to its return; outcome
\* says which call fails, if any
delete_document(document_id, outcome) ==
    /\ \A p \in Processes : pc[p] = "idle"
    /\ hashes' = IF outcome \in {"ok"} \cup DeleteSwallowed
                 THEN DeleteByKeys(hashes, HashIdsOf(document_id))
                 ELSE hashes
    /\ last' = IF outcome \in DeleteFailures
               THEN Raised("delete", document_id, "")
               ELSE Returned("delete", document_id, "", "success")
    /\ ghost' = [ghost EXCEPT !.recorded = IF outcome \in {"ok"} \cup DeleteSwallowed
                                           THEN Del(@, {document_id})
                                           ELSE @,
                              !.scenario = Off]
    /\ UNCHANGED <<now, chain, blobs, cache, request_timestamps, pc, loc, counters>>

(***************************************************************************)
(* Envelope encryption: Fernet, Cloud KMS, base64 and the secure bucket.   *)
(***************************************************************************)
\* the name of the KMS encryption key
EncryptionKeyName == "document-encryption-key"

\* Fernet(dek).encrypt(content): a token only dek opens
FernetEncrypt(dek, content) ==
    [cipher |-> "fernet", key |-> dek, plaintext |-> content]
\* Fernet(dek).decrypt(token): None stands for InvalidToken raised
FernetDecrypt(dek, token) ==
    IF token.cipher = "fernet" /\ token.key = dek THEN <<token.plaintext>> ELSE None

\* kms_client.encrypt(name, plaintext).ciphertext
KmsEncrypt(name, plaintext) ==
    [cipher |-> "kms", key |-> name, plaintext |-> plaintext]
\* kms_client.decrypt(name, ciphertext).plaintext: None stands for the error raised
KmsDecrypt(name, ciphertext) ==
    IF ciphertext.cipher = "kms" /\ ciphertext.key = name
    THEN <<ciphertext.plaintext>> ELSE None

\* base64.b64encode(x).decode('utf-8') and base64.b64decode(s)
B64Encode(x) == [b64 |-> x]
B64Decode(s) == s.b64

\* blob metadata without the envelope tag (a fault C10 must detect)
BlobMetadataUntagged(content, encrypted_dek) ==
    [encrypted_with |-> "KMS",
     kms_key_name |-> EncryptionKeyName,
     original_size |-> ToString(Len(content)),
     envelope_metadata |-> B64Encode(encrypted_dek)]

\* blob.metadata as encrypt_document sets it
BlobMetadata(content, encrypted_dek) ==
    [encrypted_with |-> "GCUL_envelope_encryption",
     kms_key_name |-> EncryptionKeyName,
     original_size |-> ToString(Len(content)),
     envelope_metadata |-> B64Encode(encrypted_dek)]

\* the blob encrypt_document uploads for content under a fresh key dek;
\* source is history, the content it was made from
EncryptedBlob(content, dek) ==
    [content |-> FernetEncrypt(dek, content),
     metadata |-> BlobMetadata(content, KmsEncrypt(EncryptionKeyName, dek)),
     source |-> content]

\* Fernet.generate_key() and the blob name of the next upload
NewDek == "dek-" \o ToString(counters.blob + 1)
NewBlobName == "encrypted/blob-" \o ToString(counters.blob + 1) \o ".enc"

\* the upload retried until it is stored or three attempts were made (a
\* fault C16 must detect)
UploadAttemptsThrice(blob_name, outcome) ==
    CASE outcome = "ok" -> <<blob_name>>
      [] outcome = "kms_fails" -> << >>
      [] outcome = "reconnect_fails" -> <<blob_name>>
      [] outcome = "retry_ok" -> <<blob_name, blob_name>>
      [] OTHER -> <<blob_name, blob_name, blob_name>>

\* the blob names of the upload_from_string calls of one encrypt_document,
\* in order: the upload, and the one retry after the storage client was
\* made anew
UploadAttempts(blob_name, outcome) ==
    CASE outcome = "ok" -> <<blob_name>>
      [] outcome = "kms_fails" -> << >>
      [] outcome = "reconnect_fails" -> <<blob_name>>
      [] OTHER -> <<blob_name, blob_name>>

\* encrypt_document(content, metadata); outcome says what fails: the KMS
\* call, the first upload only, the first upload and the new credentials,
\* or the first upload and the retry
encrypt_document(content, outcome) ==
    LET attempts == UploadAttempts(NewBlobName, outcome)
    IN  /\ counters.blob < MaxBlobs
        /\ IF outcome \in {"ok", "retry_ok"}
           THEN /\ counters' = [counters EXCEPT !.blob = @ + 1]
                /\ blobs' = Put(blobs, NewBlobName, EncryptedBlob(content, NewDek))
                /\ last' = [Returned("encrypt", NewBlobName, content, NewBlobName)
                               EXCEPT !.uploads = Len(attempts), !.kms_calls = 1,
                                      !.attempts = attempts]
           ELSE /\ UNCHANGED <<blobs, counters>>
                /\ last' = [Raised("encrypt", "", content)
                               EXCEPT !.uploads = Len(attempts), !.kms_calls = 1,
                                      !.attempts = attempts]
        /\ ghost' = OffScenario
        /\ UNCHANGED <<now, hashes, chain, cache, request_timestamps, pc, loc>>

\* what decrypt_document(blob_name) returns: None stands for an exception
DecryptResult(blob_name, kms_up) ==
    IF blob_name \notin DOMAIN blobs THEN None
    ELSE LET blob == blobs[blob_name]
             encrypted_content == blob.content
         IN  IF ~kms_up THEN None
             ELSE IF blob.metadata.encrypted_with = "GCUL_envelope_encryption"
             THEN LET encrypted_dek == B64Decode(blob.metadata.envelope_metadata)
                      dek == KmsDecrypt(EncryptionKeyName, encrypted_dek)
                  IN  IF dek = None THEN None
                      ELSE FernetDecrypt(dek[1], encrypted_content)
             ELSE KmsDecrypt(EncryptionKeyName, encrypted_content)

\* decrypt_document(blob_name)
decrypt_document(blob_name, kms_up) ==
    LET decrypted_content == DecryptResult(blob_name, kms_up)
    IN  /\ last' = IF decrypted_content = None
                   THEN [Raised("decrypt", blob_name, "") EXCEPT !.kms_up = kms_up]
                   ELSE [Returned("decrypt", blob_name, "", decrypted_content[1])
                            EXCEPT !.kms_up = kms_up]
        /\ ghost' = OffScenario
        /\ UNCHANGED <<now, hashes, chain, blobs, cache, request_timestamps,
                       pc, loc, counters>>

(***************************************************************************)
(* get_document_audit_trail.                                               *)
(***************************************************************************)
\* ORDER BY timestamp: the sequences of the rows of S in ascending order
\* of timestamp; rows of one timestamp come in either order
RECURSIVE ByTimestamp(_)
ByTimestamp(S) ==
    IF S = {} THEN {<< >>}
    ELSE UNION {{<<r>> \o s : s \in ByTimestamp(S \ {r})} :
                  r \in {x \in S : \A y \in S : x.timestamp <= y.timestamp}}

\* the sequences of the first n blocks of S in descending order of block
\* number; blocks of one number come in either order
RECURSIVE BlockSeqs(_, _)
BlockSeqs(S, n) ==
    IF n = 0 \/ S = {} THEN {<< >>}
    ELSE UNION {{<<b>> \o s : s \in BlockSeqs(S \ {b}, n - 1)} :
                  b \in {x \in S : \A y \in S : y.block_number <= x.block_number}}

\* ORDER BY block_number DESC with no LIMIT (a fault C21 must detect)
AllBlockSeqs(n) == BlockSeqs(chain, Cardinality(chain))

\* ORDER BY block_number DESC LIMIT n: the sequences the query may return
LatestBlockSeqs(n) == BlockSeqs(chain, n)

\* a hash record and a block as the audit trail shows them
AuditRecord(r) ==
    [hash_id |-> r.hash_id, file_hash |-> r.file_hash,
     content_hash |-> r.content_hash, timestamp |-> r.timestamp,
     verification_status |-> r.verification_status,
     has_signature |-> (r.signature # None)]
AuditBlock(b) ==
    [chain_id |-> b.chain_id, block_number |-> b.block_number,
     block_hash |-> b.current_hash, timestamp |-> b.timestamp]

\* get_document_audit_trail(document_id)
get_document_audit_trail(document_id, spanner_up) ==
    /\ IF spanner_up
       THEN \E blocks \in LatestBlockSeqs(AUDIT_CHAIN_LIMIT),
               rows \in ByTimestamp(RowsOf(document_id)) :
              LET hash_records == [i \in 1..Len(rows) |-> AuditRecord(rows[i])]
              IN  last' = Returned("audit", document_id, "",
                                   [hash_records |-> hash_records,
                                    chain_blocks |-> [i \in 1..Len(blocks) |-> AuditBlock(blocks[i])],
                                    total_records |-> Len(hash_records)])
       ELSE last' = Returned("audit", document_id, "",
                             [hash_records |-> << >>, chain_blocks |-> << >>,
                              error |-> "snapshot failed"])
    /\ ghost' = OffScenario
    /\ UNCHANGED <<now, hashes, chain, blobs, cache, request_timestamps,
                   pc, loc, counters>>

(***************************************************************************)
(* The VerificationCache called directly.                                  *)
(***************************************************************************)
\* is_throttled(document_id)
is_throttled(document_id) ==
    LET throttled == IsThrottled(request_timestamps, document_id, now)
    IN  /\ request_timestamps' = AfterIsThrottled(request_timestamps, document_id, now)
        /\ last' = Returned("is_throttled", document_id, "", throttled)
        /\ ghost' = [ghost EXCEPT !.passed = IF last'.result[1] THEN @
                                             ELSE Put(@, document_id, now),
                                  !.scenario = Off]
        /\ UNCHANGED <<now, hashes, chain, blobs, cache, pc, loc, counters>>

\* get(document_id, content_hash)
cache_get(document_id, content_hash) ==
    /\ cache' = CacheAfterGet(cache, document_id, content_hash, now)
    /\ last' = [Returned("get", document_id, "",
                         CacheGet(cache, document_id, content_hash, now))
                    EXCEPT !.removed = DOMAIN cache \ DOMAIN cache',
                           !.content_hash = content_hash]
    /\ ghost' = OffScenario
    /\ UNCHANGED <<now, hashes, chain, blobs, request_timestamps, pc, loc, counters>>

\* set(document_id, verification_result, content_hash, ttl)
cache_set(document_id, verification_result, content_hash, ttl) ==
    /\ counters.sets < MaxSets
    /\ counters' = [counters EXCEPT !.sets = @ + 1]
    /\ cache' = CacheSet(cache, document_id, verification_result, content_hash, ttl, now)
    /\ last' = [Returned("set", document_id, "", verification_result)
                   EXCEPT !.uploads = IF ttl = None THEN 0 ELSE ttl[1],
                          !.content_hash = content_hash,
                          !.cache_hit = generate_cache_key(document_id, content_hash)
                                            \in DOMAIN cache]
    /\ ghost' = OffScenario
    /\ UNCHANGED <<now, hashes, chain, blobs, request_timestamps, pc, loc>>

\* invalidate(document_id)
cache_invalidate(document_id) ==
    /\ cache' = CacheInvalidate(cache, document_id)
    /\ last' = [Returned("invalidate", document_id, "", None)
                    EXCEPT !.removed = DOMAIN cache \ DOMAIN cache']
    /\ ghost' = OffScenario
    /\ UNCHANGED <<now, hashes, chain, blobs, request_timestamps, pc, loc, counters>>

\* clear_expired()
cache_clear_expired ==
    /\ cache' = CacheClearExpired(cache, now)
    /\ last' = [Returned("clear_expired", "", "", None)
                    EXCEPT !.removed = DOMAIN cache \ DOMAIN cache']
    /\ ghost' = OffScenario
    /\ UNCHANGED <<now, hashes, chain, blobs, request_timestamps, pc, loc, counters>>

(***************************************************************************)
(* The system.                                                             *)
(***************************************************************************)
Init ==
    /\ now = Epoch
    /\ hashes = {}
    /\ chain = {}
    /\ blobs = << >>
    /\ cache = << >>
    /\ request_timestamps = << >>
    /\ pc = [p \in Processes |-> "idle"]
    /\ loc = [p \in Processes |-> NoLocals]
    /\ counters = [hash |-> 0, chain |-> 0, blob |-> 0,
                   verifies |-> 0, sets |-> 0]
    /\ last = NoCall
    /\ ghost = NoHistory

\* the blob names asked for: those uploaded and one that was not
BlobNames == DOMAIN blobs \cup {"encrypted/missing.enc"}
UploadOutcomes == {"ok", "retry_ok", "retry_fails", "reconnect_fails", "kms_fails"}
\* the inputs of the cache called directly
CacheIds == {"doc-1", "doc-10"}
\* no hash, the empty hash (as good as none to the key) and a digest
CacheHashes == {None, <<"">>, <<SHA256("hello")>>}
CacheResults == {NotFoundResult(SHA256("hello")), ErrorResult}
CacheTtls == {None, <<0>>, <<TTL_NOT_FOUND>>}
\* the instants of the cache called directly: the last instant an entry of
\* either TTL is kept and the first it is not
CacheInstants == {Epoch + d : d \in {0, TTL_NOT_FOUND, TTL_NOT_FOUND + 1, default_ttl, default_ttl + 1}}

\* verification of one document in front of the Ledger Store as time
\* passes; its hash records are created one call at a time
NextVerify ==
    \/ Tick(Instants)
    \/ \E c \in Contents, up \in BOOLEAN :
          verify_document_integrity("doc-1", c, up)
    \/ \E c \in Contents, o \in {"ok"} \cup RecordFailures :
          create_document_hash_record(NewStamp, NewStamp + 1, "doc-1", c, o)
    \/ \E o \in DeleteOutcomes : delete_document("doc-1", o)

SpecVerify == Init /\ [][NextVerify]_vars

\* verification of several documents by calls made back to back, within
\* one reading of the clock
NextBackToBack ==
    \/ \E d \in DocIds, c \in Contents, up \in BOOLEAN :
          verify_document_integrity(d, c, up)
    \/ \E d \in DocIds, c \in Contents, o \in {"ok"} \cup RecordFailures :
          create_document_hash_record(NewStamp, NewStamp + 1, d, c, o)
    \/ \E d \in DocIds, o \in DeleteOutcomes : delete_document(d, o)

SpecBackToBack == Init /\ [][NextBackToBack]_vars

\* the Ledger Store under createHashRecord calls made one at a time, any
\* call of which may fail, with the other operations of the service
NextSerial ==
    \/ \E d \in DocIds, c \in Contents, o \in CreateOutcomes :
          create_document_hash_record(NewStamp, NewStamp + 1, d, c, o)
    \/ \E d \in DocIds, o \in DeleteOutcomes : delete_document(d, o)
    \/ \E d \in DocIds, up \in BOOLEAN : get_document_audit_trail(d, up)
    \/ \E c \in Contents : verify_document_integrity("doc-1", c, TRUE)

SpecSerial == Init /\ [][NextSerial]_vars

\* the audit trail over a chain that grows longer than the trail shows,
\* beside a verification that fills the cache and the throttle map
NextAudit ==
    \/ \E d \in DocIds :
          create_document_hash_record_within(MaxAuditRecords, NewStamp, NewStamp + 1, d,
                                             "hello", "ok")
    \/ \E d \in DocIds, up \in BOOLEAN : get_document_audit_trail(d, up)
    \/ verify_document_integrity("doc-1", "hello", TRUE)

SpecAudit == Init /\ [][NextAudit]_vars

\* the Ledger Store under createHashRecord calls of several workers that
\* interleave with each other, with the steps of a deletion and with the
\* audit trail, for one document
NextChain ==
    \/ \E w \in Workers, n \in Stamps, o \in {"ok", "sign_fails"} :
          create_hash_record_begin(w, n, "doc-1", "hello", o)
    \/ \E w \in Workers, o \in {"ok", "insert_fails"} : create_hash_record_insert(w, o)
    \/ \E w \in Workers, up \in BOOLEAN : add_to_hash_chain_read(w, up)
    \/ \E w \in Workers, o \in {"ok", "block_sign_fails"} :
          add_to_hash_chain_sign(w, loc[w].timestamp + 1, o)
    \/ \E w \in Workers, o \in {"ok", "block_insert_fails"} :
          add_to_hash_chain_insert(w, o)
    \/ \E o \in {"ok", "snapshot_fails", "storage_fails"} :
          delete_document_read("doc-1", o)
    \/ \E o \in {"ok", "batch_fails"} : delete_document_batch(o)
    \/ get_document_audit_trail("doc-1", TRUE)

SpecChain == Init /\ [][NextChain]_vars

\* the chain table under every operation of the service: the steps of one
\* createHashRecord call and of one deletion interleave with each other and
\* with encrypt, verifyIntegrity and getAuditTrail
NextAppend ==
    \/ \E o \in {"ok", "sign_fails"} :
          create_hash_record_begin(1, NewStamp, "doc-1", "hello", o)
    \/ \E o \in {"ok", "insert_fails"} : create_hash_record_insert(1, o)
    \/ \E up \in BOOLEAN : add_to_hash_chain_read(1, up)
    \/ \E o \in {"ok", "block_sign_fails"} : add_to_hash_chain_sign(1, NewStamp, o)
    \/ \E o \in {"ok", "block_insert_fails"} : add_to_hash_chain_insert(1, o)
    \/ \E o \in DeleteOutcomes \ {"batch_fails"} :
          delete_document_read("doc-1", o)
    \/ \E o \in {"ok", "batch_fails"} : delete_document_batch(o)
    \/ \E up \in BOOLEAN : get_document_audit_trail("doc-1", up)
    \/ \E up \in BOOLEAN : verify_document_integrity("doc-1", "hello", up)
    \/ \E o \in {"ok", "retry_fails"} : encrypt_document("hello", o)

SpecAppend == Init /\ [][NextAppend]_vars

\* the Envelope Codec over the secure bucket, and the hash record that a
\* document upload writes after it
NextEnvelope ==
    \/ \E c \in Contents \cup {""}, o \in UploadOutcomes : encrypt_document(c, o)
    \/ \E b \in BlobNames, up \in BOOLEAN : decrypt_document(b, up)
    \/ \E n \in Stamps, c \in Contents :
          create_document_hash_record(n, n + 1, "doc-1", c, "ok")

SpecEnvelope == Init /\ [][NextEnvelope]_vars

\* the throttle of the VerificationCache called directly as time passes
NextThrottle ==
    \/ Tick(FineInstants)
    \/ \E d \in DocIds : is_throttled(d)

SpecThrottle == Init /\ [][NextThrottle]_vars

\* the instants of the throttle gate beside the cache: inside the window
\* of a request made at the first, and at its end
GateInstants == {Epoch + d : d \in {0, throttle_window - 1, throttle_window}}

\* the throttle gate of two documents, called directly and by
\* verifications, beside the calls of the cache
NextGate ==
    \/ Tick(GateInstants)
    \/ \E d \in DocIds : is_throttled(d)
    \/ \E d \in DocIds : verify_document_integrity(d, "hello", TRUE)
    \/ \E d \in DocIds : cache_get(d, None)
    \/ \E d \in DocIds : cache_set(d, ErrorResult, None, None)
    \/ \E d \in DocIds : cache_invalidate(d)
    \/ cache_clear_expired

SpecGate == Init /\ [][NextGate]_vars

\* the hash records of one document under createHashRecord calls of two
\* workers that record different contents, one after the other or
\* interleaved, each reading any instant of the clock: a row may carry a
\* timestamp earlier than, equal to or later than a row inserted before
\* it; beside them verifications read the Ledger Store
NextOverlap ==
    \/ \E w \in Workers, n \in Stamps, c \in Contents :
          create_hash_record_begin(w, n, "doc-1", c, "ok")
    \/ \E w \in Workers : create_hash_record_insert(w, "ok")
    \/ \E w \in Workers : add_to_hash_chain_read(w, TRUE)
    \/ \E w \in Workers : add_to_hash_chain_sign(w, loc[w].timestamp + 1, "ok")
    \/ \E w \in Workers : add_to_hash_chain_insert(w, "ok")
    \/ \E c \in Contents : verify_document_integrity("doc-1", c, TRUE)

SpecOverlap == Init /\ [][NextOverlap]_vars

\* verification of one document as time passes, in front of a Ledger Store
\* whose hash records are created one call at a time, each call reading
\* any instant of the clock, and deleted
NextRecency ==
    \/ Tick(GateInstants)
    \/ \E c \in Contents, up \in BOOLEAN :
          verify_document_integrity("doc-1", c, up)
    \/ \E n \in Stamps, c \in Contents, o \in {"ok"} \cup RecordFailures :
          create_document_hash_record(n, n + 1, "doc-1", c, o)
    \/ \E o \in DeleteOutcomes : delete_document("doc-1", o)

SpecRecency == Init /\ [][NextRecency]_vars

\* the ids of the documents verified with the twin contents: one of them
\* holds the separator of the cache key
TwinDocIds == {"doc-1", "doc:1"}

\* verification of contents whose digests agree on the characters that the
\* cache key keeps, inside and after the throttle window
NextTwin ==
    \/ Tick(GateInstants)
    \/ \E d \in TwinDocIds, c \in TwinContents : verify_document_integrity(d, c, TRUE)
    \/ \E d \in TwinDocIds, c \in TwinContents : create_document_hash_record(NewStamp, NewStamp + 1, d, c, "ok")

SpecTwin == Init /\ [][NextTwin]_vars

\* the VerificationCache of a process whose clock starts at instant 0
InitAtZero ==
    /\ now = 0
    /\ hashes = {}
    /\ chain = {}
    /\ blobs = << >>
    /\ cache = << >>
    /\ request_timestamps = << >>
    /\ pc = [p \in Processes |-> "idle"]
    /\ loc = [p \in Processes |-> NoLocals]
    /\ counters = [hash |-> 0, chain |-> 0, blob |-> 0,
                   verifies |-> 0, sets |-> 0]
    /\ last = NoCall
    /\ ghost = NoHistory

\* the instants at the ends of the throttle window and of the TTLs of
\* entries set at instant 0, and the instants next to them
BoundaryInstants ==
    {0, throttle_window - 1, throttle_window, throttle_window + 1,
     TTL_NOT_FOUND, TTL_NOT_FOUND + 1, default_ttl, default_ttl + 1}

\* the throttle gate and the cache of one document at those instants
NextBoundary ==
    \/ Tick(BoundaryInstants)
    \/ is_throttled("doc-1")
    \/ \E h \in CacheHashes : cache_get("doc-1", h)
    \/ \E h \in CacheHashes, r \in CacheResults, ttl \in CacheTtls :
          cache_set("doc-1", r, h, ttl)

SpecBoundary == InitAtZero /\ [][NextBoundary]_vars

\* the entries of the VerificationCache called directly as time passes
NextCache ==
    \/ Tick(CacheInstants)
    \/ \E d \in CacheIds, h \in CacheHashes : cache_get(d, h)
    \/ \E d \in CacheIds, h \in CacheHashes, r \in CacheResults, ttl \in CacheTtls :
          cache_set(d, r, h, ttl)
    \/ \E d \in CacheIds : cache_invalidate(d)
    \/ cache_clear_expired

SpecCache == Init /\ [][NextCache]_vars

(***************************************************************************)
(* Properties.                                                             *)
(***************************************************************************)
\* the status a comparison of the last call's content with the content
\* recorded for its document gives
ExpectedStatus ==
    IF last.content = ghost.recorded[last.id] THEN "VERIFIED" ELSE "TAMPERED"

OtherRows(id) ==
    {r \in RowsOf(id) : r.file_hash # SHA256(ghost.recorded[id])}

\* a hash record of the content that the last createHashRecord of document
\* id recorded carries a later timestamp than every hash record of id of
\* another content
RecordedIsLatest(id) ==
    \E r \in RowsOf(id) \ OtherRows(id) :
       \A r2 \in OtherRows(id) : r2.timestamp < r.timestamp

IsPrefix(s, t) == Len(s) <= Len(t) /\ s = SubSeq(t, 1, Len(s))

\* C2 as stated: from an empty ledger and cache, createHashRecord("doc-1",
\* hello), verify("doc-1", hello), verify("doc-1", goodbye), verify("doc-2",
\* anything) back to back give VERIFIED, TAMPERED, NOT_FOUND
C2_ScenarioAsStated ==
    ghost.scenario # Off =>
        IsPrefix(ghost.scenario, <<"RECORDED", "VERIFIED", "TAMPERED", "NOT_FOUND">>)

\* C2: from an empty ledger and cache, the same four calls back to back give
\* VERIFIED, THROTTLED, NOT_FOUND: the second verification of doc-1 comes
\* inside the throttle window the first one opened
C2_ScenarioSecondVerifyThrottled ==
    ghost.scenario # Off =>
        IsPrefix(ghost.scenario, <<"RECORDED", "VERIFIED", "THROTTLED", "NOT_FOUND">>)

\* the four calls of the scenario were made
C2_Witness ==
    /\ Len(ghost.scenario) = Len(ScenarioCalls)
    /\ last.op = "verify"
    /\ last.id = "doc-2"
    /\ last.result[1].status = "NOT_FOUND"

\* C3: when the calls run one at a time, the stored blocks are numbered
\* exactly 0..n without gap or duplicate, block 0 has no previous hash, and
\* the previous hash of block k >= 1 is the current hash of block k-1
C3_SerialChainLinked ==
    /\ {b.block_number : b \in chain} = 0 .. (Cardinality(chain) - 1)
    /\ \A b \in chain : b.block_number = 0 => b.previous_hash = None
    /\ \A b \in chain : b.block_number >= 1 =>
          \E p \in chain : /\ p.block_number = b.block_number - 1
                           /\ b.previous_hash = <<p.current_hash>>

\* a block was appended after the genesis block
C3_Witness ==
    /\ last.op = "create"
    /\ \E b \in chain : b.block_number >= 1

\* C4: the current hash of every stored block is the SHA-256 of
\* "{block_number}:{previous_hash}:{merkle_root}" over its stored fields, and
\* its merkle root is the SHA-256 of its document hashes concatenated in
\* stored order
C4_BlockHashesRecompute ==
    \A b \in chain :
        /\ b.current_hash = SHA256(ToString(b.block_number) \o ":"
                                   \o PyStr(b.previous_hash) \o ":" \o b.merkle_root)
        /\ b.merkle_root = SHA256(Join(b.document_hashes))

\* a genesis block and a block that has a previous hash are stored
C4_Witness ==
    /\ \E b \in chain : b.previous_hash = None
    /\ \E b \in chain : b.previous_hash # None

\* C5: when two createHashRecord calls have both read the same latest block
\* before either inserts, the blocks they insert are two blocks with the same
\* block number and the same previous hash
C5_RacedBlocksCollide ==
    \A p \in ghost.raced : \A a, b \in chain :
        (a.document_hashes = <<p[1]>> /\ b.document_hashes = <<p[2]>>)
        => /\ a # b
           /\ a.block_number = b.block_number
           /\ a.previous_hash = b.previous_hash

\* two calls that raced have both returned, and their two blocks are stored
C5_Witness ==
    /\ \A w \in Workers : pc[w] = "idle"
    /\ ~last.raised
    /\ \E p \in ghost.raced : \E a, b \in chain :
          /\ a.document_hashes = <<p[1]>>
          /\ b.document_hashes = <<p[2]>>
          /\ a.chain_id # b.chain_id
          /\ a.block_number = b.block_number

\* C6: no step removes or changes a stored block, and a step that changes
\* the chain table inserts one block, in _add_to_hash_chain
C6_ChainAppendOnly ==
    [][/\ chain \subseteq chain'
       /\ chain' # chain =>
             /\ Cardinality(chain' \ chain) = 1
             /\ \E w \in Workers : pc[w] = "insert_block" /\ pc'[w] = "idle"]_vars

\* a document was deleted with its hash records while blocks are stored
C6_Witness ==
    /\ last.op = "delete"
    /\ hashes = {}
    /\ chain # {}

\* the unexpired cache entries set for the document of the last call
LiveEntriesOfLast ==
    {k \in DOMAIN cache : cache[k].owner = last.id /\ ~Expired(cache[k], now)}

\* C7 as stated: a throttled verifyIntegrity(id, X) returns a cached result
\* of id when the cache holds an unexpired one
C7_ThrottledReturnsCached ==
    (last.op = "verify" /\ last.throttled /\ LiveEntriesOfLast # {})
    => \E k \in LiveEntriesOfLast : last.result = <<cache[k].data>>

\* C8: a verifyIntegrity(id, ...) made less than throttle_window seconds
\* after the last one for id that was not throttled reads nothing from the
\* Ledger Store, and two reads for one id are never less than
\* throttle_window seconds apart
C8_ThrottleShieldsLedger ==
    [][\A d \in DocIds : (last'.op = "verify" /\ last'.id = d) =>
          /\ (d \in DOMAIN ghost.passed /\ now - ghost.passed[d] < throttle_window)
             => (~last'.ledger_read /\ ghost'.read = ghost.read)
          /\ (last'.ledger_read /\ d \in DOMAIN ghost.read)
             => now - ghost.read[d] >= throttle_window]_vars

\* a verification was throttled at the instant the Ledger Store was read
\* for its document
C8_Witness ==
    /\ last.op = "verify"
    /\ last.throttled
    /\ ~last.ledger_read
    /\ last.id \in DOMAIN ghost.read
    /\ ghost.read[last.id] = now

\* C9: is_throttled(id) returns true and leaves the throttle map unchanged
\* when the last call for id that returned false was made less than
\* throttle_window seconds ago; otherwise it records the current time for id
\* and returns false
C9_ThrottleWindow ==
    [][\A d \in DocIds : (last'.op = "is_throttled" /\ last'.id = d) =>
          /\ request_timestamps = ghost.passed
          /\ IF d \in DOMAIN ghost.passed /\ now - ghost.passed[d] < throttle_window
             THEN /\ last'.result = <<TRUE>>
                  /\ request_timestamps' = request_timestamps
             ELSE /\ last'.result = <<FALSE>>
                  /\ request_timestamps' = Put(request_timestamps, d, now)]_vars

\* a call was throttled some seconds after the recorded one
C9_Witness ==
    /\ last.op = "is_throttled"
    /\ last.result = <<TRUE>>
    /\ now > request_timestamps[last.id]

\* C10: every uploaded blob carries the envelope tag and a wrapped data key
\* that opens its content, and decrypt of an uploaded blob, the Key Service
\* being available, returns the content encrypt was given
C10_EnvelopeRoundTrip ==
    /\ \A b \in DOMAIN blobs :
          LET dek == KmsDecrypt(EncryptionKeyName,
                                B64Decode(blobs[b].metadata.envelope_metadata))
          IN  /\ blobs[b].metadata.encrypted_with = "GCUL_envelope_encryption"
              /\ dek # None
              /\ FernetDecrypt(dek[1], blobs[b].content) = <<blobs[b].source>>
    /\ (last.op = "decrypt" /\ last.kms_up /\ last.id \in DOMAIN blobs)
       => /\ ~last.raised
          /\ last.result = <<blobs[last.id].source>>

\* one of two blobs of different contents was decrypted
C10_Witness ==
    /\ last.op = "decrypt"
    /\ ~last.raised
    /\ last.result = <<"hello">>
    /\ \E b \in DOMAIN blobs : blobs[b].source = "goodbye"

\* C11: when _add_to_hash_chain fails (its read of the latest block, the
\* signing of the block or its insert) after the hash record was inserted,
\* create_document_hash_record raises, the Ledger Store keeps its hash
\* records as they are, and no block lists the hash id of the call
C11_AppendFailureLeavesOrphan ==
    [][\A w \in Workers :
          (/\ pc[w] \in {"read_latest", "sign_block", "insert_block"}
           /\ pc'[w] = "idle"
           /\ chain' = chain)
          => /\ last'.op = "create"
             /\ last'.raised
             /\ last'.result = None
             /\ hashes' = hashes
             /\ \A b \in chain' : \A i \in DOMAIN b.document_hashes :
                   b.document_hashes[i] # loc[w].hash_id]_vars

\* a call has raised and left a hash record that no block lists
C11_Witness ==
    /\ last.op = "create"
    /\ last.raised
    /\ \A w \in Workers : pc[w] = "idle"
    /\ \E r \in hashes : \A b \in chain : \A i \in DOMAIN b.document_hashes :
          b.document_hashes[i] # r.hash_id

\* the cache key of the verification that returned last
KeyOfLast == "verify:" \o last.id \o ":" \o Slice(SHA256(last.content), KEY_PREFIX_LEN)

\* C12 as stated: verify_document_integrity never raises, and a call that
\* returns ERROR leaves the cache map unchanged
C12_ErrorLeavesCacheUnchanged ==
    [][(last'.op = "verify" /\ last'.result[1].status = "ERROR")
       => (~last'.raised /\ cache' = cache)]_vars

\* C12: verify_document_integrity never raises; a call that returns ERROR
\* adds no entry to the cache and changes none, the only change it can make
\* being the removal of the expired entry it looked up; no cached result has
\* status ERROR
C12_ErrorNotCached ==
    [][/\ last'.op = "verify" => (~last'.raised /\ last'.result # None)
       /\ \A k \in DOMAIN cache' : cache'[k].data.status # "ERROR"
       /\ (last'.op = "verify" /\ last'.result[1].status = "ERROR")
          => /\ \A k \in DOMAIN cache' : k \in DOMAIN cache /\ cache'[k] = cache[k]
             /\ \A k \in DOMAIN cache \ DOMAIN cache' :
                   /\ k = "verify:" \o last'.id \o ":"
                             \o Slice(SHA256(last'.content), KEY_PREFIX_LEN)
                   /\ now - cache[k].timestamp > cache[k].ttl]_vars

\* a call returned ERROR after it removed the expired entry it looked up
C12_Witness ==
    /\ last.op = "verify"
    /\ last.result[1].status = "ERROR"
    /\ last.removed = {KeyOfLast}

\* the TTL a result of the given status is cached with
StatusTtl(status) ==
    CASE status = "NOT_FOUND" -> TTL_NOT_FOUND
      [] status = "VERIFIED" -> TTL_VERIFIED
      [] status = "TAMPERED" -> TTL_TAMPERED

\* C13: a verification that is not throttled returns the entry stored under
\* its key without reading the Ledger Store while the entry's TTL has not
\* passed; otherwise it reads the Ledger Store and stores the result it
\* returns under its key, with the TTL of its status: TTL_NOT_FOUND,
\* TTL_VERIFIED or TTL_TAMPERED
C13_CachedByStatusTtl ==
    [][/\ \A k \in DOMAIN cache' : cache'[k].ttl = StatusTtl(cache'[k].data.status)
       /\ (last'.op = "verify" /\ ~last'.throttled) =>
             LET k == "verify:" \o last'.id \o ":"
                         \o Slice(SHA256(last'.content), KEY_PREFIX_LEN)
             IN  IF k \in DOMAIN cache /\ now - cache[k].timestamp <= cache[k].ttl
                 THEN /\ last'.result = <<cache[k].data>>
                      /\ ~last'.ledger_read
                      /\ cache' = cache
                 ELSE /\ last'.ledger_read
                      /\ last'.result[1].status # "ERROR" =>
                            /\ DOMAIN cache' = DOMAIN cache \cup {k}
                            /\ cache'[k].data = last'.result[1]
                            /\ cache'[k].timestamp = now
                            /\ cache'[k].ttl = StatusTtl(last'.result[1].status)
                            /\ \A j \in DOMAIN cache \ {k} : cache'[j] = cache[j]]_vars

\* a verification that was not throttled returned a TAMPERED result from
\* the cache at a later time
C13_Witness ==
    /\ last.op = "verify"
    /\ ~last.throttled
    /\ last.cache_hit
    /\ last.result[1].status = "TAMPERED"
    /\ now > cache[KeyOfLast].timestamp

\* a verification that reads the Ledger Store compares the content with a
\* hash record of the document that no other exceeds in timestamp, and with
\* no other: it returns that record's hash id and file hash, VERIFIED when
\* the content's hash is that file hash and TAMPERED when it is not
ComparesWithLatest ==
    IF RowsOf(last'.id) = {}
    THEN last'.result[1].status = "NOT_FOUND"
    ELSE \E r \in RowsOf(last'.id) :
            /\ \A r2 \in RowsOf(last'.id) : r2.timestamp <= r.timestamp
            /\ last'.result[1].hash_id = r.hash_id
            /\ last'.result[1].expected_hash = r.file_hash
            /\ last'.result[1].verified = (SHA256(last'.content) = r.file_hash)
            /\ last'.result[1].status =
                  IF SHA256(last'.content) = r.file_hash THEN "VERIFIED"
                  ELSE "TAMPERED"

\* the step is a verification that read the Ledger Store
VerifyReadsLedger ==
    /\ counters'.verifies # counters.verifies
    /\ last'.op = "verify"
    /\ last'.ledger_read
    /\ last'.result[1].status # "ERROR"

\* the document verified has hash records of several contents, and its
\* last createHashRecord call ran after every other had ended: it is the
\* createHashRecord(id, C2) that followed createHashRecord(id, C1)
Reuploaded ==
    /\ last'.id \in DOMAIN ghost.recorded
    /\ OtherRows(last'.id) # {}

\* C14 as stated: a verification that reads the Ledger Store compares the
\* content with the hash record of the latest timestamp only, and after
\* createHashRecord(id, C1) followed by createHashRecord(id, C2) it returns
\* VERIFIED for C2 and TAMPERED for C1
C14_LaterCallIsCurrent ==
    [][VerifyReadsLedger
       => /\ ComparesWithLatest
          /\ Reuploaded
             => /\ last'.result[1].verified = (last'.content = ghost.recorded[last'.id])
                /\ last'.result[1].status =
                      IF last'.content = ghost.recorded[last'.id] THEN "VERIFIED"
                      ELSE "TAMPERED"]_vars

\* C14: a verification that reads the Ledger Store compares the content
\* with a hash record of the document that no other exceeds in timestamp,
\* and with no other; after createHashRecord(id, C1) followed by
\* createHashRecord(id, C2) it returns VERIFIED for C2 and TAMPERED for C1
\* when a hash record of C2 carries a later timestamp than every hash
\* record of id of another content
C14_LatestRecordCompared ==
    [][VerifyReadsLedger
       => /\ ComparesWithLatest
          /\ (Reuploaded /\ RecordedIsLatest(last'.id))
             => /\ last'.result[1].verified = (last'.content = ghost.recorded[last'.id])
                /\ last'.result[1].status =
                      IF last'.content = ghost.recorded[last'.id] THEN "VERIFIED"
                      ELSE "TAMPERED"]_vars

\* createHashRecord(id, C1) was followed by createHashRecord(id, C2), whose
\* hash record carries the later timestamp, and a verification that read
\* the Ledger Store then returned TAMPERED for C1
C14_Witness ==
    /\ last.op = "verify"
    /\ last.ledger_read
    /\ last.id \in DOMAIN ghost.recorded
    /\ RecordedIsLatest(last.id)
    /\ last.result[1].status = "TAMPERED"
    /\ \E r \in OtherRows(last.id) : r.file_hash = SHA256(last.content)

\* C15: the Verification Cache is transparent: every VERIFIED, TAMPERED or
\* NOT_FOUND result a verification returns is the result derived from the
\* Ledger Store's current most recent hash record of the document, i.e.
\* the result of the same call with every cache entry dropped before it
C15_CacheTransparent ==
    (/\ last.op = "verify"
     /\ last.result # None
     /\ last.result[1].status \in {"VERIFIED", "TAMPERED", "NOT_FOUND"})
    => LET current_hash == SHA256(last.content)
       IN  IF RowsOf(last.id) = {}
           THEN last.result[1] = NotFoundResult(current_hash)
           ELSE \E r \in LatestRows(last.id) :
                   last.result[1] = ComparedResult(r, current_hash)

\* C16: one encrypt_document makes one KMS encrypt call and at most two
\* uploads; the second upload is the retry after a failed first one and
\* goes to the same blob name; when the call raises it returns no blob
\* name and leaves the secure bucket as it was, when it returns, the blob
\* is stored under the name returned; the Ledger Store is never written
C16_EncryptRetriesOnce ==
    [][(last'.op = "encrypt")
       => /\ last'.kms_calls = 1
          /\ Len(last'.attempts) <= 2
          /\ last'.uploads = Len(last'.attempts)
          /\ \A i, j \in DOMAIN last'.attempts : last'.attempts[i] = last'.attempts[j]
          /\ hashes' = hashes
          /\ chain' = chain
          /\ IF last'.raised
             THEN /\ last'.result = None
                  /\ blobs' = blobs
             ELSE /\ last'.attempts # << >>
                  /\ last'.result = <<last'.attempts[1]>>
                  /\ DOMAIN blobs' = DOMAIN blobs \cup {last'.attempts[1]}
                  /\ blobs'[last'.attempts[1]].source = last'.content
                  /\ \A b \in DOMAIN blobs \ {last'.attempts[1]} : blobs'[b] = blobs[b]]_vars

\* an encrypt_document whose upload and retry both failed, with hash
\* records in the Ledger Store and a blob in the secure bucket
C16_Witness ==
    /\ last.op = "encrypt"
    /\ last.raised
    /\ Len(last.attempts) = 2
    /\ hashes # {}
    /\ DOMAIN blobs # {}

\* the cache key of the last call of the cache, from its arguments: the
\* hash is left out when it is none or empty
KeyOfCacheCall ==
    IF last.content_hash # None /\ last.content_hash[1] # ""
    THEN "verify:" \o last.id \o ":" \o Slice(last.content_hash[1], KEY_PREFIX_LEN)
    ELSE "verify:" \o last.id

\* C17: get returns null when the cache has no entry under the key or the
\* entry is older than its TTL, and the stored result otherwise; the get
\* that finds the entry expired deletes it and nothing else; a get that
\* hits or finds no entry leaves the cache as it was
C17_GetEvictsExpired ==
    [][(last'.op = "get")
       => LET k == KeyOfCacheCall'
          IN  IF k \notin DOMAIN cache
              THEN /\ last'.result = <<None>>
                   /\ cache' = cache
              ELSE IF now - cache[k].timestamp > cache[k].ttl
              THEN /\ last'.result = <<None>>
                   /\ DOMAIN cache' = DOMAIN cache \ {k}
                   /\ \A j \in DOMAIN cache' : cache'[j] = cache[j]
              ELSE /\ last'.result = << <<cache[k].data>> >>
                   /\ cache' = cache]_vars

\* a get found its entry expired and deleted it, and left another entry
C17_Witness ==
    /\ last.op = "get"
    /\ last.result = <<None>>
    /\ last.removed = {KeyOfCacheCall}
    /\ cache # << >>

\* C18: a get that follows a get of the same key with no other call and no
\* passing of time between them returns what the first returned; a set
\* puts its result under the key whatever the key held, with the time of
\* the call and the TTL given (the default TTL for none or 0), changes no
\* other entry, and a get of the key that follows it returns that result
C18_GetIdempotentSetOverwrites ==
    [][/\ (/\ last.op = "get" /\ last'.op = "get"
           /\ last'.id = last.id /\ KeyOfCacheCall' = KeyOfCacheCall
           /\ now' = now)
          => last'.result = last.result
       /\ (last'.op = "set")
          => LET k == KeyOfCacheCall'
             IN  /\ DOMAIN cache' = DOMAIN cache \cup {k}
                 /\ cache'[k].data = last'.result[1]
                 /\ cache'[k].timestamp = now
                 /\ cache'[k].ttl = (IF last'.uploads = 0 THEN default_ttl
                                     ELSE last'.uploads)
                 /\ \A j \in DOMAIN cache \ {k} : cache'[j] = cache[j]
       /\ (/\ last.op = "set" /\ last'.op = "get"
           /\ last'.id = last.id /\ KeyOfCacheCall' = KeyOfCacheCall)
          => last'.result = <<last.result>>]_vars

\* a set found an entry under its key and put its own result there, at a
\* later time than the cache was first written
C18_Witness ==
    /\ last.op = "set"
    /\ last.cache_hit
    /\ cache[KeyOfCacheCall].data = ErrorResult
    /\ cache[KeyOfCacheCall].timestamp = now
    /\ now > Epoch

\* C19: invalidate(id) leaves no entry that was set for document id,
\* neither under the key of id alone nor under a key of id and a hash
\* prefix, and changes no entry it leaves; after it every get of id, with
\* or without a hash, returns null at any later time; only a set adds an
\* entry to the cache
C19_InvalidateRemovesDocument ==
    [][/\ (last'.op = "invalidate")
          => /\ \A k \in DOMAIN cache' :
                   /\ cache'[k].owner # last'.id
                   /\ k \in DOMAIN cache
                   /\ cache'[k] = cache[k]
             /\ \A k \in DOMAIN cache \ DOMAIN cache' :
                   StartsWith(k, "verify:" \o last'.id)
             /\ \A h \in CacheHashes, t \in CacheInstants :
                   t >= now => CacheGet(cache', last'.id, h, t) = None
       /\ (last'.op # "set") => DOMAIN cache' \subseteq DOMAIN cache]_vars

\* an invalidate deleted the entry of the document's id alone and the
\* entry of its id and a hash prefix
C19_Witness ==
    /\ last.op = "invalidate"
    /\ last.id = "doc-10"
    /\ last.removed = {generate_cache_key("doc-10", h) : h \in CacheHashes}
    /\ cache = << >>

\* C20: clear_expired deletes the entries older than their TTL at the time
\* of the call and no other, and changes no entry it leaves; for every key
\* and every later time, a get returns from the cache it leaves what it
\* would have returned from the cache before the call
C20_ClearExpiredInvisible ==
    [][(last'.op = "clear_expired")
       => /\ DOMAIN cache' = {k \in DOMAIN cache :
                                 ~(now - cache[k].timestamp > cache[k].ttl)}
          /\ \A k \in DOMAIN cache' : cache'[k] = cache[k]
          /\ \A d \in CacheIds, h \in CacheHashes, t \in CacheInstants :
                t >= now => CacheGet(cache', d, h, t) = CacheGet(cache, d, h, t)]_vars

\* a clear_expired deleted an expired entry and left an entry that is as
\* old as its TTL
C20_Witness ==
    /\ last.op = "clear_expired"
    /\ last.removed # {}
    /\ \E k \in DOMAIN cache : now - cache[k].timestamp = cache[k].ttl

\* what C21 says of the trail res returned for document id: every hash
\* record of id once, in ascending order of timestamp; the blocks of the
\* highest block numbers of the whole chain, AUDIT_CHAIN_LIMIT at most, in
\* descending order; the number of hash records
TrailShowsLedger(res, id) ==
    /\ DOMAIN res = {"hash_records", "chain_blocks", "total_records"}
    /\ Len(res.hash_records) = Cardinality({r \in hashes : r.document_id = id})
    /\ \A r \in hashes : r.document_id = id =>
          \E i \in DOMAIN res.hash_records :
              /\ res.hash_records[i].hash_id = r.hash_id
              /\ res.hash_records[i].file_hash = r.file_hash
              /\ res.hash_records[i].content_hash = r.content_hash
              /\ res.hash_records[i].timestamp = r.timestamp
              /\ res.hash_records[i].verification_status = r.verification_status
              /\ res.hash_records[i].has_signature = (r.signature # None)
    /\ \A i, j \in DOMAIN res.hash_records :
          i < j => res.hash_records[i].timestamp <= res.hash_records[j].timestamp
    /\ Len(res.chain_blocks) = (IF Cardinality(chain) < AUDIT_CHAIN_LIMIT
                                THEN Cardinality(chain) ELSE AUDIT_CHAIN_LIMIT)
    /\ \A i, j \in DOMAIN res.chain_blocks :
          i < j => /\ res.chain_blocks[i].chain_id # res.chain_blocks[j].chain_id
                   /\ res.chain_blocks[i].block_number >= res.chain_blocks[j].block_number
    /\ \A i \in DOMAIN res.chain_blocks :
          /\ \E b \in chain :
                /\ b.chain_id = res.chain_blocks[i].chain_id
                /\ b.block_number = res.chain_blocks[i].block_number
                /\ b.current_hash = res.chain_blocks[i].block_hash
          /\ \A b \in chain :
                (\A j \in DOMAIN res.chain_blocks : res.chain_blocks[j].chain_id # b.chain_id)
                => b.block_number <= res.chain_blocks[i].block_number
    /\ res.total_records = Len(res.hash_records)

\* C21 as stated: get_document_audit_trail changes neither the Ledger
\* Store nor the cache nor the throttle map, and the trail it returns shows
\* the ledger
C21_AuditShowsLedger ==
    [][(last'.op = "audit")
       => /\ hashes' = hashes /\ chain' = chain
          /\ cache' = cache /\ request_timestamps' = request_timestamps
          /\ TrailShowsLedger(last'.result[1], last'.id)]_vars

\* C21: get_document_audit_trail changes neither the Ledger Store nor the
\* cache nor the throttle map and never raises; the trail it returns
\* either shows the ledger or, when the snapshot read failed, has no hash
\* records, no blocks, no total and an error
C21_AuditShowsLedgerOrError ==
    [][(last'.op = "audit")
       => /\ hashes' = hashes /\ chain' = chain
          /\ cache' = cache /\ request_timestamps' = request_timestamps
          /\ ~last'.raised
          /\ IF "error" \in DOMAIN last'.result[1]
             THEN /\ DOMAIN last'.result[1] = {"hash_records", "chain_blocks", "error"}
                  /\ last'.result[1].hash_records = << >>
                  /\ last'.result[1].chain_blocks = << >>
             ELSE TrailShowsLedger(last'.result[1], last'.id)]_vars

\* a trail of several hash records was returned that shows
\* AUDIT_CHAIN_LIMIT blocks of a longer chain, with an entry in the cache
C21_Witness ==
    /\ last.op = "audit"
    /\ "total_records" \in DOMAIN last.result[1]
    /\ last.result[1].total_records >= 2
    /\ Len(last.result[1].chain_blocks) = AUDIT_CHAIN_LIMIT
    /\ Cardinality(chain) > AUDIT_CHAIN_LIMIT
    /\ Cardinality(hashes) > last.result[1].total_records
    /\ cache # << >>

\* C22: create_document_hash_record changes neither the cache nor the
\* throttle map; a verification that passes the throttle gate and finds an
\* unexpired entry under its key returns the result of that entry, whatever
\* hash records were written since the entry was set
C22_CreateKeepsCache ==
    [][/\ (last'.op = "create")
          => /\ cache' = cache
             /\ request_timestamps' = request_timestamps
       /\ (/\ last'.op = "verify"
           /\ ~last'.throttled
           /\ KeyOfLast' \in DOMAIN cache
           /\ now - cache[KeyOfLast'].timestamp <= cache[KeyOfLast'].ttl)
          => /\ last'.result = <<cache[KeyOfLast'].data>>
             /\ ~last'.ledger_read]_vars

\* a verification returned the NOT_FOUND result cached before a hash
\* record of the document was written
C22_Witness ==
    /\ last.op = "verify"
    /\ ~last.throttled
    /\ last.cache_hit
    /\ last.result[1].status = "NOT_FOUND"
    /\ RowsOf(last.id) # {}

C24_InvalidateOtherDocumentsKept ==
    [][(last'.op = "invalidate")
       => \A k \in DOMAIN cache :
             cache[k].owner # last'.id
             => /\ k \in DOMAIN cache'
                /\ cache'[k] = cache[k]]_vars

\* C25: every block lists one hash id, that of a hash record inserted
\* before the block; no two blocks list the same hash id; there are never
\* more blocks than hash records ever inserted; a create_document_hash_record
\* that returns has inserted one hash record (at its first write) and one
\* block (at its last), the block listing the hash id it returns
C25_OneBlockPerRecord ==
    [][/\ \A b \in chain' :
             /\ Len(b.document_hashes) = 1
             /\ \E n \in 1..counters'.hash :
                   b.document_hashes = <<"hash-" \o ToString(n)>>
             /\ \A r \in hashes' :
                   r.hash_id = b.document_hashes[1] => r.timestamp < b.timestamp
       /\ \A b1, b2 \in chain' :
             b1 # b2 => b1.document_hashes[1] # b2.document_hashes[1]
       /\ Cardinality(chain') <= counters'.hash
       /\ \A w \in Workers :
             /\ (pc[w] = "insert_record" /\ pc'[w] = "read_latest")
                => /\ \E r \in hashes' \ hashes :
                         /\ hashes' = hashes \cup {r}
                         /\ r.hash_id = loc'[w].hash_id
                   /\ counters'.hash = counters.hash + 1
                   /\ chain' = chain
             /\ (pc[w] = "insert_block" /\ pc'[w] = "idle" /\ ~last'.raised)
                => /\ last'.op = "create"
                   /\ last'.result = <<loc[w].hash_id>>
                   /\ \E b \in chain' \ chain :
                         /\ chain' = chain \cup {b}
                         /\ b.document_hashes = <<loc[w].hash_id>>
                   /\ hashes' = hashes]_vars

\* a second create_document_hash_record has returned after the hash record
\* of the first was deleted: a block lists a hash id that is stored no more
C25_Witness ==
    /\ last.op = "create"
    /\ ~last.raised
    /\ Cardinality(chain) = 2
    /\ \E b \in chain : \A r \in hashes : r.hash_id # b.document_hashes[1]
    /\ \E b \in chain : \E r \in hashes : r.hash_id = b.document_hashes[1]

\* C26: a create_document_hash_record whose signing of the hash record
\* fails raises and changes neither table of the Ledger Store; every hash
\* record stored has a signature, that of its file hash, content hash and
\* document id, and the verification status VERIFIED
C26_SignedBeforeStored ==
    [][/\ (last'.op = "create" /\ last'.kms_calls = 1 /\ ~last'.kms_up)
          => /\ last'.raised
             /\ last'.result = None
             /\ hashes' = hashes
             /\ chain' = chain
       /\ \A r \in hashes' :
             /\ r.signature =
                   <<KmsSign(HashToSign(r.file_hash, r.content_hash, r.document_id))>>
             /\ r.verification_status = "VERIFIED"]_vars

\* a create_document_hash_record raised on its first KMS call, with hash
\* records and blocks stored by the calls before it
C26_Witness ==
    /\ last.op = "create"
    /\ last.raised
    /\ last.kms_calls = 1
    /\ ~last.kms_up
    /\ hashes # {}
    /\ chain # {}

\* C27: whether is_throttled(id) or a verification of id is throttled
\* depends on the last recorded request of id alone, and neither changes
\* the recorded request of another document; is_throttled does not change
\* the cache; get, set, invalidate and clear_expired do not change the
\* throttle map
C27_GatePerDocument ==
    [][/\ (last'.op \in {"is_throttled", "verify"})
          => LET own == Get(request_timestamps, last'.id)
                 inside == /\ own # None
                           /\ own[1] # 0
                           /\ now - own[1] < throttle_window
             IN  /\ IF last'.op = "verify" THEN last'.throttled = inside
                    ELSE /\ last'.result = <<inside>>
                         /\ cache' = cache
                 /\ Get(request_timestamps', last'.id) = (IF inside THEN own ELSE <<now>>)
                 /\ DOMAIN request_timestamps' \subseteq
                       DOMAIN request_timestamps \cup {last'.id}
                 /\ \A d \in DOMAIN request_timestamps \ {last'.id} :
                       request_timestamps'[d] = request_timestamps[d]
       /\ (last'.op \in {"get", "set", "invalidate", "clear_expired"})
          => request_timestamps' = request_timestamps]_vars

\* a verification passed the gate while a request of another document was
\* inside its window
C27_Witness ==
    /\ last.op = "verify"
    /\ ~last.throttled
    /\ \E d \in DOMAIN request_timestamps \ {last.id} :
          /\ request_timestamps[d] < now
          /\ now - request_timestamps[d] < throttle_window

\* C28: a verification changes neither table of the Ledger Store, and one
\* that reads the Ledger Store and finds a hash record returns VERIFIED
\* when the SHA-256 of the content is the file hash of the latest hash
\* record and TAMPERED when it is not, whether or not a block lists that
\* record
C28_VerifiedByFileHashAlone ==
    [][(last'.op = "verify")
       => /\ hashes' = hashes
          /\ chain' = chain
          /\ (last'.ledger_read /\ RowsOf(last'.id) # {}
              /\ last'.result[1].status # "ERROR")
             => \E r \in RowsOf(last'.id) :
                   /\ \A r2 \in RowsOf(last'.id) : r2.timestamp <= r.timestamp
                   /\ last'.result[1].status =
                         IF SHA256(last'.content) = r.file_hash
                         THEN "VERIFIED" ELSE "TAMPERED"
                   /\ last'.result[1].verified = (SHA256(last'.content) = r.file_hash)]_vars

\* a verification returned VERIFIED from a hash record that no block lists
C28_Witness ==
    /\ last.op = "verify"
    /\ last.ledger_read
    /\ last.result[1].status = "VERIFIED"
    /\ \A b \in chain : \A i \in DOMAIN b.document_hashes :
          b.document_hashes[i] # last.result[1].hash_id

\* C30: is_throttled returns true only when less than throttle_window has
\* passed since the recorded request of the document, false when exactly
\* throttle_window has passed, and false when the recorded instant is 0; a
\* get returns the entry of its key when the entry is as old as its TTL and
\* null only when it is older; a set with no TTL or TTL 0 stores the
\* default TTL, and the TTL given otherwise
C30_BoundariesPermissive ==
    [][/\ (last'.op = "is_throttled")
          => LET own == Get(request_timestamps, last'.id)
             IN  /\ (own # None /\ now - own[1] = throttle_window)
                    => last'.result = <<FALSE>>
                 /\ (own = <<0>>) => last'.result = <<FALSE>>
                 /\ (last'.result = <<TRUE>>)
                    <=> (own # None /\ own[1] # 0 /\ now - own[1] < throttle_window)
       /\ (last'.op = "get" /\ KeyOfCacheCall' \in DOMAIN cache)
          => LET entry == cache[KeyOfCacheCall']
             IN  /\ (now - entry.timestamp = entry.ttl)
                    => /\ last'.result = << <<entry.data>> >>
                       /\ cache' = cache
                 /\ (last'.result = <<None>>) <=> (now - entry.timestamp > entry.ttl)
       /\ (last'.op = "set")
          => cache'[KeyOfCacheCall'].ttl =
                (IF last'.uploads = 0 THEN default_ttl ELSE last'.uploads)]_vars

\* a get returned an entry that is as old as its default TTL, set with no
\* TTL or TTL 0, while the request recorded for the document is of instant 0
C30_Witness ==
    /\ last.op = "get"
    /\ last.result # <<None>>
    /\ KeyOfCacheCall \in DOMAIN cache
    /\ now - cache[KeyOfCacheCall].timestamp = default_ttl
    /\ cache[KeyOfCacheCall].ttl = default_ttl
    /\ Get(request_timestamps, last.id) = <<0>>

\* C29 as stated: the result a verification of content X returns from a
\* cache hit past the throttle gate has the SHA-256 of X as its actual hash
C29_CacheHitOfSameContent ==
    (/\ last.op = "verify"
     /\ ~last.throttled
     /\ last.cache_hit)
    => last.result[1].actual_hash = SHA256(last.content)

====
